---- MODULE Spec2Model ----
(***************************************************************************)
(* Model of the vector ingestion / retrieval pair                          *)
(*   project-1/ingestion/ingest_to_s3_vectors.py   (S3VectorIngestion)     *)
(*   project-1/ingestion/retrieve_from_s3_vectors.py (S3VectorRetriever)   *)
(* The program is single-threaded: every action below is one step of the   *)
(* one running call, between two remote calls.  The vector store and the   *)
(* embedding provider are external; each remote call either succeeds or    *)
(* raises, chosen nondeterministically.                                    *)
(***************************************************************************)
EXTENDS Integers, Sequences, FiniteSets, TLC

(***************************************************************************)
(* Bounds of the model.                                                    *)
(***************************************************************************)
\* chunks in a small corpus, summed over its files
MaxChunks == 2
\* runs of the ingestion program against the same store (first run + re-runs)
MaxRuns == 2
\* chunks of the one large generated document (more than one batch)
BigN == 120
\* longest list handed directly to upload_vectors
MaxN == 201
\* largest top_k passed to a search
MaxTopK == 2
\* operations called on one PostgresConnector, one after the other
MaxOps == 3
\* responses of a /rank request, items of a /batch/score request
MaxItems == 3
\* requests sent to the reward-model API
MaxRequests == 2

(***************************************************************************)
(* Program constants.                                                      *)
(***************************************************************************)
\* ingest_to_s3_vectors.py:151
batch_size == 100

\* ingest_to_s3_vectors.py:206-208 / config.py:6-8
SEMANTIC_BUCKET == "nl2sql-semantic-memory"
PROCEDURAL_BUCKET == "nl2sql-procedural-memory"
EPISODIC_BUCKET == "nl2sql-episodic-memory"

\* the three bucket/index pairs of _create_indexes
SemanticTarget == <<SEMANTIC_BUCKET, "semantic_index">>
ProceduralTarget == <<PROCEDURAL_BUCKET, "procedural_index">>
EpisodicTarget == <<EPISODIC_BUCKET, "episodic_index">>
Targets == {SemanticTarget, ProceduralTarget, EpisodicTarget}

(***************************************************************************)
(* Python helpers.                                                         *)
(***************************************************************************)
\* dict.get(k, default)
Get(d, k, default) == IF k \in DOMAIN d THEN d[k] ELSE default

\* ','.join(keywords)
RECURSIVE Join(_)
Join(ks) ==
    IF ks = <<>> THEN ""
    ELSE IF Len(ks) = 1 THEN ks[1]
    ELSE ks[1] \o "," \o Join(Tail(ks))

Min(a, b) == IF a < b THEN a ELSE b

\* variant: the end of the slice taken as inclusive bound, one record short
Slice_short(s, from, to) == SubSeq(s, from + 1, Min(to - 1, Len(s)))

\* vectors[i:i + batch_size], i counted from 0 as in Python
Slice(s, from, to) == SubSeq(s, from + 1, Min(to, Len(s)))

(***************************************************************************)
(* External collaborators.                                                 *)
(***************************************************************************)
\* Embedding provider: a deterministic map from text to a vector (here a
\* one-component vector that depends on the text).
Embed(text) == <<Len(text)>>

\* Vector store, one index: a map key -> record.  A write is an upsert by
\* key; of several records of one call with the same key the last one stays.
StoredRecord(v) == [data |-> v.data, metadata |-> v.metadata]

\* position in the batch of the last record carrying key k
LastWith(batch, k) ==
    LET at == {j \in 1..Len(batch) : batch[j].key = k}
    IN  CHOOSE j \in at : \A j2 \in at : j2 <= j

Upsert(m, batch) ==
    LET keys == {batch[j].key : j \in 1..Len(batch)}
    IN  [k \in DOMAIN m \cup keys |->
            IF k \in keys THEN StoredRecord(batch[LastWith(batch, k)]) ELSE m[k]]

PutVectors(st, b, idx, batch) ==
    [st EXCEPT ![<<b, idx>>] = Upsert(@, batch)]

EmptyIndex == [k \in {} |-> k]
EmptyStore == [t \in Targets |-> EmptyIndex]

(***************************************************************************)
(* Input: the knowledge documents of the data directory.                   *)
(***************************************************************************)
ChunkPool ==
    { [chunk_id |-> "c1", entity_type |-> "column", text |-> "customer id",
       keywords |-> <<"id", "key">>, column_name |-> "id"],
      [chunk_id |-> "q1", entity_type |-> "query_example",
       text |-> "find customers in CA"],
      [text |-> "orphan", keywords |-> <<>>],
      [entity_type |-> "query_example", text |-> "q", keywords |-> <<"ca">>] }

ChunkSeqs(n) == UNION {[1..k -> ChunkPool] : k \in 0..n}

\* semantic_customers.json, and a second file with or without a "table" key
FirstDoc(s) == [table |-> "customers", chunks |-> s]
SecondDocs(s) == {[table |-> "orders", chunks |-> s], [chunks |-> s]}

SmallCorpora ==
    {<<>>}
    \cup {<<FirstDoc(s)>> : s \in ChunkSeqs(MaxChunks)}
    \cup UNION { UNION { {<<FirstDoc(s1), d2>> : d2 \in SecondDocs(s2)}
                         : s2 \in ChunkSeqs(MaxChunks - Len(s1)) }
                 : s1 \in ChunkSeqs(MaxChunks) }

\* one large document: more than batch_size semantic chunks, a few procedural
\* ones, and its last chunk reusing the chunk_id of its first
BigChunk(j) ==
    [chunk_id |-> "b" \o ToString(j % (BigN - 1)),
     entity_type |-> IF j % 10 = 5 THEN "query_example" ELSE "column",
     text |-> IF j % 2 = 0 THEN "even" ELSE "odd row",
     keywords |-> IF j = 1 THEN <<"first">> ELSE <<"big">>]

BigCorpus == <<[table |-> "big", chunks |-> [j \in 1..BigN |-> BigChunk(j)]]>>

Corpora == SmallCorpora \cup {BigCorpus}

\* one schema file with a column chunk and a query example
ScenarioCorpus ==
    <<[table |-> "customers",
       chunks |-> <<[chunk_id |-> "c1", entity_type |-> "column", text |-> "customer id",
                     keywords |-> <<"id", "key">>, column_name |-> "id"],
                    [chunk_id |-> "q1", entity_type |-> "query_example",
                     text |-> "find customers in CA"]>>]>>

\* the data directories the whole program (constructor included) is run on
ProvisionCorpora ==
    {<<>>, ScenarioCorpus,
     ScenarioCorpus \o <<[table |-> "orders", chunks |-> <<[text |-> "orphan", keywords |-> <<>>]>>]>>}

\* a list handed directly to upload_vectors
TestVector(j) ==
    [key |-> "v" \o ToString(j),
     data |-> [float32 |-> <<j % 3>>],
     metadata |-> [table_name |-> "t", entity_type |-> "column", keywords |-> ""]]

TestVectors(n) == [j \in 1..n |-> TestVector(j)]

(***************************************************************************)
(* State.                                                                  *)
(***************************************************************************)
VARIABLES
    corpus,                 \* the documents found in data_path, in glob order
    store,                  \* the vector store: target -> key -> record
    pc,                     \* position of the running call
    run,                    \* number of the current ingestion run
    fileIdx,                \* ingest_all: position in json_files
    all_semantic_vectors,   \* ingest_all locals
    all_procedural_vectors,
    table_name,             \* process_file locals
    chunks,
    chunkIdx,
    semantic_vectors,
    procedural_vectors,
    vectors,                \* upload_vectors arguments and locals
    bucket,
    index_name,
    i,
    total_uploaded,
    ret,                    \* who called upload_vectors
    result,                 \* <<return value of ingest_all>>, or <<>>
    logged_total,           \* <<total logged at the end of upload_vectors>>, or <<>>
    puts,                   \* history: put_vectors calls of this run
    embedCalls,             \* history: embed_query calls of this run
    embedded,               \* history: the texts handed to embed_query in this run
    embedFailed,            \* history: an embed_query call of this run raised
    parseLog,               \* history: parse_chunk calls, input and output
    prev,                   \* history: the store at the end of the previous run
    buckets,                \* the vector buckets that exist in the store
    indexes,                \* the <<bucket, index>> pairs that exist in the store
    provIdx,                \* _create_buckets / _create_indexes: loop position
    provLog,                \* history: describe and create calls of the constructor
    data_path_exists,       \* the configured data directory exists
    existed,                \* history: the buckets and indexes existing before the run
    error_log,              \* history: logger.error calls of the constructor
    pg_conn,                \* PostgresConnector.conn: None or a connection
    pg_cur,                 \* PostgresConnector.cur: None or a cursor
    op,                     \* the connector operation being executed
    body,                   \* the statements of the with-block still to execute
    exc,                    \* the exception on its way out of the operation, or ""
    outcome,                \* how the last connector operation ended
    clog,                   \* history: library calls of the connector operation
    created,                \* history: the connections and cursors ever created
    close_calls,            \* history: the connections and cursors close() was called on
    entry,                  \* history: conn and cur when the operation was called
    ops,                    \* number of connector operations called so far
    tokenizer,              \* model_state.tokenizer
    model,                  \* model_state.model
    loaded_at,              \* model_state.loaded_at
    scoreOf,                \* the reward model: response -> score, in 1e-5 units
    request,                \* the HTTP request being handled
    scored_responses,       \* rank_responses / batch_score: the list built so far
    itemIdx,                \* position in request.responses / request.items
    http,                   \* <<the HTTP response>>, or <<>> while handling
    invocations,            \* history: tokenizer / model calls of the request
    served,                 \* number of requests received so far
    call,                   \* S3VectorRetriever: the method called and its arguments
    cur,                    \* the single-partition search being executed
    query_embedding,        \* its local
    partial,                \* search_both: the results obtained so far
    q_result,               \* <<return value of the retriever call>>, or <<>>
    q_log                   \* history: remote calls of the retriever call

ingestVars ==
    <<fileIdx, all_semantic_vectors, all_procedural_vectors, table_name,
      chunks, chunkIdx, semantic_vectors, procedural_vectors, result>>
uploadVars == <<vectors, bucket, index_name, i, total_uploaded, ret, logged_total>>
histVars == <<puts, embedCalls, embedded, embedFailed, parseLog, prev>>
queryVars == <<call, cur, query_embedding, partial, q_result, q_log>>
provVars == <<buckets, indexes, provIdx, provLog, data_path_exists, existed, error_log>>
connVars ==
    <<pg_conn, pg_cur, op, body, exc, outcome, clog, created, close_calls, entry, ops>>
rewardVars ==
    <<tokenizer, model, loaded_at, scoreOf, request, scored_responses, itemIdx, http,
      invocations, served>>
otherVars == <<connVars, rewardVars>>
pipelineVars ==
    <<corpus, store, run, ingestVars, uploadVars, histVars, queryVars, provVars>>
vars ==
    <<corpus, store, pc, run, ingestVars, uploadVars, histVars, queryVars, provVars,
      connVars, rewardVars>>

(***************************************************************************)
(* S3VectorIngestion.__init__: provisioning of buckets and indexes.        *)
(***************************************************************************)
\* _create_buckets, line 51, and _create_indexes, lines 67-71: the loops
BucketList == <<SEMANTIC_BUCKET, PROCEDURAL_BUCKET, EPISODIC_BUCKET>>
IndexList == <<SemanticTarget, ProceduralTarget, EpisodicTarget>>

\* Vector store: a describe call succeeds only on a resource that exists, a
\* create call only on one that does not (an index only inside a bucket that
\* exists); a write reaches an index only if the index exists.  Any call may
\* raise for other reasons.
BucketExists(b) == b \in buckets
IndexExists(b, idx) == <<b, idx>> \in indexes
CanCreateBucket(b) == b \notin buckets
CanCreateIndex(b, idx) == b \in buckets /\ <<b, idx>> \notin indexes

\* variant: the constructor does not call _create_indexes
AfterBucket_ingest(k) ==
    IF k < Len(BucketList) THEN [pc |-> "describe_bucket", provIdx |-> k + 1]
    ELSE [pc |-> "ingest_all", provIdx |-> 0]

\* where the constructor goes on after bucket k / index k is dealt with
AfterBucket(k) ==
    IF k < Len(BucketList) THEN [pc |-> "describe_bucket", provIdx |-> k + 1]
    ELSE [pc |-> "describe_index", provIdx |-> 1]

AfterIndex(k) ==
    IF k < Len(IndexList) THEN [pc |-> "describe_index", provIdx |-> k + 1]
    ELSE [pc |-> "ingest_all", provIdx |-> 0]

\* variant: a resource found by the existence check is created all the same
OnDescribeOk_create(stage, after) == [pc |-> stage, provIdx |-> provIdx]

\* lines 53-54, 75-79: the describe call returned, nothing is created
OnDescribeOk(stage, after) == after

\* variant: the handler logs the error and raises it again
OnCreateError_raise(after) == [pc |-> "raised", provIdx |-> 0]

\* lines 62-63, 89-90: the error of a create call is logged, the loop goes on
OnCreateError(after) == after

\* a describe or create call: the API, the <<bucket>> or <<bucket, index>> named
ProvCall(api, res, ok) == [api |-> api, resource |-> res, ok |-> ok]

\* __init__, lines 30-44: fields and clients, then _create_buckets
Construct ==
    /\ pc = "__init__"
    /\ provIdx' = 1
    /\ pc' = "describe_bucket"
    /\ UNCHANGED <<otherVars, corpus, store, run, ingestVars, uploadVars, histVars, queryVars,
                   buckets, indexes, provLog, data_path_exists, existed, error_log>>

\* _create_buckets, lines 52-54: describe_vector_bucket returns
DescribeBucketOk ==
    /\ pc = "describe_bucket"
    /\ BucketExists(BucketList[provIdx])
    /\ provLog' = Append(provLog,
          ProvCall("describe_vector_bucket", <<BucketList[provIdx]>>, TRUE))
    /\ LET to == OnDescribeOk("create_bucket", AfterBucket(provIdx)) IN
        /\ pc' = to.pc
        /\ provIdx' = to.provIdx
    /\ UNCHANGED <<otherVars, corpus, store, run, ingestVars, uploadVars, histVars, queryVars,
                   buckets, indexes, data_path_exists, existed, error_log>>

\* _create_buckets, lines 53-55: describe_vector_bucket raises
DescribeBucketFail ==
    /\ pc = "describe_bucket"
    /\ provLog' = Append(provLog,
          ProvCall("describe_vector_bucket", <<BucketList[provIdx]>>, FALSE))
    /\ pc' = "create_bucket"
    /\ UNCHANGED <<otherVars, corpus, store, run, ingestVars, uploadVars, histVars, queryVars,
                   buckets, indexes, provIdx, data_path_exists, existed, error_log>>

\* _create_buckets, lines 56-61: create_vector_bucket returns
CreateBucketOk ==
    /\ pc = "create_bucket"
    /\ CanCreateBucket(BucketList[provIdx])
    /\ buckets' = buckets \cup {BucketList[provIdx]}
    /\ provLog' = Append(provLog,
          ProvCall("create_vector_bucket", <<BucketList[provIdx]>>, TRUE))
    /\ pc' = AfterBucket(provIdx).pc
    /\ provIdx' = AfterBucket(provIdx).provIdx
    /\ UNCHANGED <<otherVars, corpus, store, run, ingestVars, uploadVars, histVars, queryVars,
                   indexes, data_path_exists, existed, error_log>>

\* _create_buckets, lines 56-63: create_vector_bucket raises
CreateBucketFail ==
    /\ pc = "create_bucket"
    /\ provLog' = Append(provLog,
          ProvCall("create_vector_bucket", <<BucketList[provIdx]>>, FALSE))
    /\ error_log' = Append(error_log,
          ProvCall("create_vector_bucket", <<BucketList[provIdx]>>, FALSE))
    /\ LET to == OnCreateError(AfterBucket(provIdx)) IN
        /\ pc' = to.pc
        /\ provIdx' = to.provIdx
    /\ UNCHANGED <<otherVars, corpus, store, run, ingestVars, uploadVars, histVars, queryVars,
                   buckets, indexes, data_path_exists, existed>>

\* _create_indexes, lines 74-79: describe_vector_index returns
DescribeIndexOk ==
    /\ pc = "describe_index"
    /\ IndexExists(IndexList[provIdx][1], IndexList[provIdx][2])
    /\ provLog' = Append(provLog,
          ProvCall("describe_vector_index", IndexList[provIdx], TRUE))
    /\ LET to == OnDescribeOk("create_index", AfterIndex(provIdx)) IN
        /\ pc' = to.pc
        /\ provIdx' = to.provIdx
    /\ UNCHANGED <<otherVars, corpus, store, run, ingestVars, uploadVars, histVars, queryVars,
                   buckets, indexes, data_path_exists, existed, error_log>>

\* _create_indexes, lines 75-80: describe_vector_index raises
DescribeIndexFail ==
    /\ pc = "describe_index"
    /\ provLog' = Append(provLog,
          ProvCall("describe_vector_index", IndexList[provIdx], FALSE))
    /\ pc' = "create_index"
    /\ UNCHANGED <<otherVars, corpus, store, run, ingestVars, uploadVars, histVars, queryVars,
                   buckets, indexes, provIdx, data_path_exists, existed, error_log>>

\* _create_indexes, lines 81-88: create_vector_index returns
CreateIndexOk ==
    /\ pc = "create_index"
    /\ CanCreateIndex(IndexList[provIdx][1], IndexList[provIdx][2])
    /\ indexes' = indexes \cup {IndexList[provIdx]}
    /\ provLog' = Append(provLog,
          ProvCall("create_vector_index", IndexList[provIdx], TRUE))
    /\ pc' = AfterIndex(provIdx).pc
    /\ provIdx' = AfterIndex(provIdx).provIdx
    /\ UNCHANGED <<otherVars, corpus, store, run, ingestVars, uploadVars, histVars, queryVars,
                   buckets, data_path_exists, existed, error_log>>

\* _create_indexes, lines 81-90: create_vector_index raises
CreateIndexFail ==
    /\ pc = "create_index"
    /\ provLog' = Append(provLog,
          ProvCall("create_vector_index", IndexList[provIdx], FALSE))
    /\ error_log' = Append(error_log,
          ProvCall("create_vector_index", IndexList[provIdx], FALSE))
    /\ LET to == OnCreateError(AfterIndex(provIdx)) IN
        /\ pc' = to.pc
        /\ provIdx' = to.provIdx
    /\ UNCHANGED <<otherVars, corpus, store, run, ingestVars, uploadVars, histVars, queryVars,
                   buckets, indexes, data_path_exists, existed>>

(***************************************************************************)
(* S3VectorIngestion.                                                      *)
(***************************************************************************)
\* load_json_files, line 94: the documents matching semantic_*.json; the glob
\* of a directory that does not exist yields nothing
load_json_files == IF data_path_exists THEN corpus ELSE <<>>

\* variant: a chunk without entity_type is routed like a query example
memory_type_of_unknown(entity_type) ==
    IF entity_type \in {"query_example", "unknown"} THEN "procedural" ELSE "semantic"

memory_type_of(entity_type) ==
    IF entity_type = "query_example" THEN "procedural" ELSE "semantic"

parse_chunk(chunk, table) ==
    LET chunk_id == Get(chunk, "chunk_id", "unknown")
        entity_type == Get(chunk, "entity_type", "unknown")
        text == Get(chunk, "text", "")
        metadata == [table_name |-> table,
                     entity_type |-> entity_type,
                     keywords |-> Join(Get(chunk, "keywords", <<>>))]
    IN  [chunk_id |-> chunk_id,
         text |-> text,
         metadata |-> IF "column_name" \in DOMAIN chunk
                      THEN ("column_name" :> chunk["column_name"]) @@ metadata
                      ELSE metadata,
         memory_type |-> memory_type_of(entity_type)]

\* variant: the key is made fresh for every run
MakeVector_fresh(p, embedding) ==
    [key |-> p.chunk_id \o "-" \o ToString(run),
     data |-> [float32 |-> embedding], metadata |-> p.metadata]

\* the vector record built in process_file for one parsed chunk
MakeVector(p, embedding) ==
    [key |-> p.chunk_id, data |-> [float32 |-> embedding], metadata |-> p.metadata]

\* variant: every vector is appended to the semantic list
SemanticAfter_all(sv, p, vector) == Append(sv, vector)

\* process_file, lines 138-141: the list a vector is appended to
SemanticAfter(sv, p, vector) ==
    IF p.memory_type = "semantic" THEN Append(sv, vector) ELSE sv

\* variant: "if" in place of "if / else", every vector also lands here
ProceduralAfter_always(pv, p, vector) == Append(pv, vector)

ProceduralAfter(pv, p, vector) ==
    IF p.memory_type = "semantic" THEN pv ELSE Append(pv, vector)

\* variant: the new vectors are put in front
Extend_front(all, new) == new \o all

\* ingest_all, lines 182-183: list.extend
Extend(all, new) == all \o new

\* variant: the failure is caught and ingestion is started over
OnEmbedError_retry == "ingest_all"

\* process_file, line 130 and ingest_all, line 181: no handler surrounds the
\* embed_query call, the exception leaves ingest_all
OnEmbedError == "raised"

NoLocals ==
    /\ table_name' = ""
    /\ chunks' = <<>>
    /\ chunkIdx' = 0
    /\ semantic_vectors' = <<>>
    /\ procedural_vectors' = <<>>

NoUpload ==
    /\ vectors' = <<>>
    /\ bucket' = ""
    /\ index_name' = ""
    /\ i' = 0
    /\ total_uploaded' = 0
    /\ ret' = ""
    /\ logged_total' = <<>>

\* ingest_all, lines 172-178
IngestAll ==
    /\ pc = "ingest_all"
    /\ fileIdx' = 1
    /\ all_semantic_vectors' = <<>>
    /\ all_procedural_vectors' = <<>>
    /\ pc' = "files"
    /\ UNCHANGED <<otherVars, provVars, queryVars, corpus, store, run, table_name, chunks, chunkIdx,
                   semantic_vectors, procedural_vectors, result, uploadVars, histVars>>

\* process_file, lines 117-124: open the next file
ProcessFile ==
    /\ pc = "files"
    /\ fileIdx <= Len(load_json_files)
    /\ LET data == load_json_files[fileIdx] IN
        /\ table_name' = Get(data, "table", "unknown")
        /\ chunks' = Get(data, "chunks", <<>>)
    /\ chunkIdx' = 1
    /\ semantic_vectors' = <<>>
    /\ procedural_vectors' = <<>>
    /\ pc' = "chunks"
    /\ UNCHANGED <<otherVars, provVars, queryVars, corpus, store, run, fileIdx, all_semantic_vectors,
                   all_procedural_vectors, result, uploadVars, histVars>>

\* process_file, lines 126-141, one chunk, embed_query returns
EmbedOk ==
    /\ pc = "chunks"
    /\ chunkIdx <= Len(chunks)
    /\ LET p == parse_chunk(chunks[chunkIdx], table_name)
           vector == MakeVector(p, Embed(p.text))
       IN
        /\ parseLog' = parseLog \cup
              {[chunk |-> chunks[chunkIdx], table |-> table_name, out |-> p]}
        /\ semantic_vectors' = SemanticAfter(semantic_vectors, p, vector)
        /\ procedural_vectors' = ProceduralAfter(procedural_vectors, p, vector)
    /\ chunkIdx' = chunkIdx + 1
    /\ embedCalls' = embedCalls + 1
    /\ embedded' = Append(embedded, parse_chunk(chunks[chunkIdx], table_name).text)
    /\ UNCHANGED <<otherVars, provVars, queryVars, corpus, store, pc, run, fileIdx, all_semantic_vectors,
                   all_procedural_vectors, table_name, chunks, result,
                   uploadVars, puts, embedFailed, prev>>

\* process_file, line 130: embed_query raises; nothing catches it, the
\* exception leaves process_file and ingest_all and their locals are gone
EmbedFail ==
    /\ pc = "chunks"
    /\ chunkIdx <= Len(chunks)
    /\ parseLog' = parseLog \cup
          {[chunk |-> chunks[chunkIdx], table |-> table_name,
            out |-> parse_chunk(chunks[chunkIdx], table_name)]}
    /\ embedCalls' = embedCalls + 1
    /\ embedded' = Append(embedded, parse_chunk(chunks[chunkIdx], table_name).text)
    /\ embedFailed' = TRUE
    /\ pc' = OnEmbedError
    /\ fileIdx' = 0
    /\ all_semantic_vectors' = <<>>
    /\ all_procedural_vectors' = <<>>
    /\ NoLocals
    /\ UNCHANGED <<otherVars, provVars, queryVars, corpus, store, run, result, uploadVars, puts, prev>>

\* process_file, lines 143-144, and ingest_all, lines 181-183
ProcessFileReturn ==
    /\ pc = "chunks"
    /\ chunkIdx > Len(chunks)
    /\ all_semantic_vectors' = Extend(all_semantic_vectors, semantic_vectors)
    /\ all_procedural_vectors' = Extend(all_procedural_vectors, procedural_vectors)
    /\ fileIdx' = fileIdx + 1
    /\ NoLocals
    /\ pc' = "files"
    /\ UNCHANGED <<otherVars, provVars, queryVars, corpus, store, run, result, uploadVars, histVars>>

\* entry of upload_vectors(vs, b, idx)
CallUpload(vs, b, idx, from) ==
    /\ vectors' = vs
    /\ bucket' = b
    /\ index_name' = idx
    /\ i' = 0
    /\ total_uploaded' = 0
    /\ logged_total' = <<>>
    /\ ret' = from
    /\ pc' = "upload"

\* ingest_all, lines 186-187
UploadSemantic ==
    /\ pc = "files"
    /\ fileIdx > Len(load_json_files)
    /\ CallUpload(all_semantic_vectors, SEMANTIC_BUCKET, "semantic_index", "semantic")
    /\ UNCHANGED <<otherVars, provVars, queryVars, corpus, store, run, ingestVars, histVars>>

\* variant: the second upload goes to the third bucket of the constructor
procedural_upload_episodic == EpisodicTarget

\* ingest_all, line 190: the bucket and index of the second upload
procedural_upload == <<PROCEDURAL_BUCKET, "procedural_index">>

\* ingest_all, lines 189-190
UploadProcedural ==
    /\ pc = "uploaded"
    /\ ret = "semantic"
    /\ CallUpload(all_procedural_vectors, procedural_upload[1], procedural_upload[2],
                  "procedural")
    /\ UNCHANGED <<otherVars, provVars, queryVars, corpus, store, run, ingestVars, histVars>>

\* upload_vectors, lines 148-149
UploadEmpty ==
    /\ pc = "upload"
    /\ vectors = <<>>
    /\ pc' = "uploaded"
    /\ UNCHANGED <<otherVars, provVars, queryVars, corpus, store, run, ingestVars, uploadVars, histVars>>

\* variant: the batches are written from the last one to the first
Batch_backwards ==
    LET last == (Len(vectors) + batch_size - 1) \div batch_size - 1
        k == last - i \div batch_size
    IN  Slice(vectors, k * batch_size, k * batch_size + batch_size)

\* the batch of the current loop iteration, line 155
Batch == Slice(vectors, i, i + batch_size)

\* line 163: total_uploaded after a batch that was written
Uploaded(total, batch) == total + Len(batch)

\* variant: the count is taken before the write is known to have succeeded
NotUploaded_counted(total, batch) == total + Len(batch)

\* lines 165-166: total_uploaded after a batch whose put_vectors raised
NotUploaded(total, batch) == total

\* variant: the first failure ends the loop
IAfterFail_abort == Len(vectors)

\* lines 165-166: the loop goes on with the next batch after a failure
IAfterFail == i + batch_size

\* the next value of the loop variable of range(0, len(vectors), batch_size)
NextI == i + batch_size

\* upload_vectors, lines 154-164: put_vectors returns
PutOk ==
    /\ pc = "upload"
    /\ vectors # <<>>
    /\ i < Len(vectors)
    /\ IndexExists(bucket, index_name)
    /\ store' = PutVectors(store, bucket, index_name, Batch)
    /\ total_uploaded' = Uploaded(total_uploaded, Batch)
    /\ i' = NextI
    /\ puts' = Append(puts, [bucket |-> bucket, index_name |-> index_name,
                             vectors |-> Batch, ok |-> TRUE])
    /\ UNCHANGED <<otherVars, provVars, queryVars, corpus, pc, run, ingestVars, vectors, bucket, index_name, ret,
                   logged_total, embedCalls, embedded, embedFailed, parseLog,
                   prev>>

\* variant: the error of a batch write is logged and raised again
OnPutError_raise == "raised"

\* lines 165-166: the error of a batch write is logged, the loop goes on
OnPutError == "upload"

\* upload_vectors, lines 154-166: put_vectors raises, the batch is skipped
PutFail ==
    /\ pc = "upload"
    /\ vectors # <<>>
    /\ i < Len(vectors)
    /\ pc' = OnPutError
    /\ total_uploaded' = NotUploaded(total_uploaded, Batch)
    /\ i' = IAfterFail
    /\ puts' = Append(puts, [bucket |-> bucket, index_name |-> index_name,
                             vectors |-> Batch, ok |-> FALSE])
    /\ UNCHANGED <<otherVars, provVars, queryVars, corpus, store, run, ingestVars, vectors, bucket,
                   index_name, ret, logged_total, embedCalls, embedded, embedFailed, parseLog,
                   prev>>

\* upload_vectors, line 168: the loop is over
UploadDone ==
    /\ pc = "upload"
    /\ vectors # <<>>
    /\ i >= Len(vectors)
    /\ logged_total' = <<total_uploaded>>
    /\ pc' = "uploaded"
    /\ UNCHANGED <<otherVars, provVars, queryVars, corpus, store, run, ingestVars, vectors, bucket, index_name, i,
                   total_uploaded, ret, histVars>>

\* variant: the summary counts the records that are in the indexes
SummaryCounts_stored ==
    [semantic_count |-> Cardinality(DOMAIN store[SemanticTarget]),
     procedural_count |-> Cardinality(DOMAIN store[ProceduralTarget])]

\* ingest_all, lines 195-196: the counts of the summary
SummaryCounts ==
    [semantic_count |-> Len(all_semantic_vectors),
     procedural_count |-> Len(all_procedural_vectors)]

\* ingest_all, lines 192-199
IngestReturn ==
    /\ pc = "uploaded"
    /\ ret = "procedural"
    /\ result' = <<[semantic_count |-> SummaryCounts.semantic_count,
                    procedural_count |-> SummaryCounts.procedural_count,
                    semantic_bucket |-> SEMANTIC_BUCKET,
                    procedural_bucket |-> PROCEDURAL_BUCKET]>>
    /\ pc' = "done"
    /\ UNCHANGED <<otherVars, provVars, queryVars, corpus, store, run, fileIdx, all_semantic_vectors,
                   all_procedural_vectors, table_name, chunks, chunkIdx,
                   semantic_vectors, procedural_vectors, uploadVars, histVars>>

\* every put_vectors call of the run so far succeeded
AllPutsOk == \A n \in 1..Len(puts) : puts[n].ok

\* main() is run again on the same data directory and the same store
Rerun ==
    /\ pc \in {"done", "raised"}
    /\ run < MaxRuns
    /\ run' = run + 1
    /\ pc' = "ingest_all"
    /\ prev' = [store |-> store, done |-> pc = "done",
                complete |-> pc = "done" /\ AllPutsOk]
    /\ fileIdx' = 0
    /\ all_semantic_vectors' = <<>>
    /\ all_procedural_vectors' = <<>>
    /\ NoLocals
    /\ NoUpload
    /\ result' = <<>>
    /\ puts' = <<>>
    /\ embedCalls' = 0
    /\ embedded' = <<>>
    /\ embedFailed' = FALSE
    /\ UNCHANGED <<otherVars, provVars, queryVars, corpus, store, parseLog>>

(***************************************************************************)
(* What the corpus should produce, stated on the documents themselves.     *)
(***************************************************************************)
RECURSIVE FlatChunks(_)
FlatChunks(docs) ==
    IF docs = <<>> THEN <<>>
    ELSE LET d == Head(docs)
             cs == Get(d, "chunks", <<>>)
         IN  [j \in 1..Len(cs) |-> [chunk |-> cs[j], table |-> Get(d, "table", "unknown")]]
             \o FlatChunks(Tail(docs))

IsQueryExample(chunk) ==
    "entity_type" \in DOMAIN chunk /\ chunk["entity_type"] = "query_example"

ExpectedVector(e) ==
    [key |-> Get(e.chunk, "chunk_id", "unknown"),
     data |-> [float32 |-> Embed(Get(e.chunk, "text", ""))],
     metadata |-> parse_chunk(e.chunk, e.table).metadata]

ExpectedSemanticOf(c) ==
    LET es == SelectSeq(FlatChunks(c), LAMBDA e : ~IsQueryExample(e.chunk))
    IN  [j \in 1..Len(es) |-> ExpectedVector(es[j])]

ExpectedProceduralOf(c) ==
    LET es == SelectSeq(FlatChunks(c), LAMBDA e : IsQueryExample(e.chunk))
    IN  [j \in 1..Len(es) |-> ExpectedVector(es[j])]

ExpectedSemantic == ExpectedSemanticOf(corpus)
ExpectedProcedural == ExpectedProceduralOf(corpus)

\* the store after a complete ingestion of corpus c into empty indexes
IngestedStore(c) ==
    PutVectors(
        PutVectors(EmptyStore, SEMANTIC_BUCKET, "semantic_index", ExpectedSemanticOf(c)),
        PROCEDURAL_BUCKET, "procedural_index", ExpectedProceduralOf(c))

SampleStores == {IngestedStore(c) : c \in SmallCorpora}

\* number of batches of a list of n records
NumBatches(n) == (n + batch_size - 1) \div batch_size

\* the n-th batch of list vs, counted from 1
NthBatch(vs, n) ==
    SubSeq(vs, (n - 1) * batch_size + 1, Min(n * batch_size, Len(vs)))

RECURSIVE SumOk(_)
SumOk(ps) ==
    IF ps = <<>> THEN 0
    ELSE (IF Head(ps).ok THEN Len(Head(ps).vectors) ELSE 0) + SumOk(Tail(ps))

(***************************************************************************)
(* Vector store: nearest-neighbour query.                                  *)
(***************************************************************************)
\* distance between the query vector and a stored vector
Distance(qv, data) ==
    LET d == qv[1] - data.float32[1] IN IF d < 0 THEN 0 - d ELSE d

\* metadata filter: every key of the filter is matched
Matches(rec, filter) ==
    \A f \in 1..Len(filter) :
        \A k \in DOMAIN filter[f] :
            k \in DOMAIN rec.metadata /\ rec.metadata[k] = filter[f][k]

\* the responses the store may give: the topK nearest matching records in
\* non-decreasing distance order (records at equal distance in any order),
\* each with its distance and metadata
QueryResponses(st, target, qv, topK, filter) ==
    LET idx == st[target]
        cands == {k \in DOMAIN idx : Matches(idx[k], filter)}
        n == Min(topK, Cardinality(cands))
        dist(k) == Distance(qv, idx[k].data)
        ranked == {s \in [1..n -> cands] :
                     /\ \A a, b \in 1..n : a < b => (s[a] # s[b] /\ dist(s[a]) <= dist(s[b]))
                     /\ \A k \in cands :
                          (\A a \in 1..n : s[a] # k) =>
                              \A a \in 1..n : dist(s[a]) <= dist(k)}
    IN  {[vectors |-> [j \in 1..n |->
                         [key |-> s[j], distance |-> dist(s[j]),
                          metadata |-> idx[s[j]].metadata]]] : s \in ranked}

(***************************************************************************)
(* S3VectorRetriever.                                                      *)
(***************************************************************************)
Queries == {"customers in California", "id"}
FilterTables == {"customers", "orders"}
Partitions == {"semantic", "procedural"}

\* the retriever is between two calls
Idle == pc \in {"retriever", "returned", "q_raised"}

Enter(c, first) ==
    /\ call' = c
    /\ cur' = first
    /\ query_embedding' = <<>>
    /\ partial' = <<>>
    /\ q_result' = <<>>
    /\ q_log' = <<>>
    /\ pc' = "embed_query"
    /\ UNCHANGED <<otherVars, provVars, corpus, store, run, ingestVars, uploadVars, histVars>>

\* search_semantic(query, top_k)
SearchSemantic ==
    /\ Idle
    /\ \E q \in Queries, k \in 1..MaxTopK :
        Enter([op |-> "search_semantic", query |-> q, top_k |-> k], "search_semantic")

\* search_procedural(query, top_k)
SearchProcedural ==
    /\ Idle
    /\ \E q \in Queries, k \in 1..MaxTopK :
        Enter([op |-> "search_procedural", query |-> q, top_k |-> k], "search_procedural")

\* search_with_filter(query, table_name, top_k); "wanted" is the partition the
\* caller means to search, which the method has no parameter for
SearchWithFilter ==
    /\ Idle
    /\ \E q \in Queries, t \in FilterTables, k \in 1..MaxTopK, w \in Partitions :
        Enter([op |-> "search_with_filter", query |-> q, table_name |-> t, top_k |-> k,
               wanted |-> w],
              "search_with_filter")

\* search_both(query, semantic_k, procedural_k): search_semantic comes first
SearchBoth ==
    /\ Idle
    /\ \E q \in Queries, sk \in 1..MaxTopK, pk \in 1..MaxTopK :
        Enter([op |-> "search_both", query |-> q, semantic_k |-> sk, procedural_k |-> pk],
              "search_semantic")

\* arguments of the query_vectors call of the search being executed
\* variant: search_both hands semantic_k to both searches
CurTopK_semantic_k ==
    IF call.op = "search_both" THEN call.semantic_k ELSE call.top_k

CurTopK ==
    IF call.op = "search_both"
    THEN (IF cur = "search_semantic" THEN call.semantic_k ELSE call.procedural_k)
    ELSE call.top_k

\* variant: the filtered search goes to the index of the partition wanted
CurTarget_wanted ==
    IF cur = "search_procedural" \/ (cur = "search_with_filter" /\ call.wanted = "procedural")
    THEN ProceduralTarget ELSE SemanticTarget

CurTarget ==
    IF cur = "search_procedural" THEN ProceduralTarget ELSE SemanticTarget

\* variant: the filter argument is left out of the query_vectors call
CurFilter_none == <<>>

CurFilter ==
    IF cur = "search_with_filter" THEN <<[table_name |-> call.table_name]>> ELSE <<>>

\* variant: a failed search returns a list holding an error entry
ErrorResult_marker == <<[error |-> "Search failed"]>>

\* lines 49-51, 69-71, 89-91: what a search returns when query_vectors raised
ErrorResult == <<>>

\* lines 35, 55, 75: embed_query returns
QueryEmbedOk ==
    /\ pc = "embed_query"
    /\ query_embedding' = Embed(call.query)
    /\ q_log' = Append(q_log, [api |-> "embed_query", ok |-> TRUE])
    /\ pc' = "query_vectors"
    /\ UNCHANGED <<otherVars, provVars, corpus, store, run, ingestVars, uploadVars, histVars,
                   call, cur, partial, q_result>>

\* lines 35, 55, 75: embed_query raises, outside of the try block
QueryEmbedFail ==
    /\ pc = "embed_query"
    /\ q_log' = Append(q_log, [api |-> "embed_query", ok |-> FALSE])
    /\ partial' = <<>>
    /\ pc' = "q_raised"
    /\ UNCHANGED <<otherVars, provVars, corpus, store, run, ingestVars, uploadVars, histVars,
                   call, cur, query_embedding, q_result>>

\* the search being executed returns r: to search_both, or to the caller
Finish(r) ==
    IF call.op = "search_both" /\ cur = "search_semantic"
    THEN /\ partial' = <<r>>
         /\ cur' = "search_procedural"
         /\ query_embedding' = <<>>
         /\ pc' = "embed_query"
         /\ UNCHANGED q_result
    ELSE /\ q_result' = IF call.op = "search_both"
                        THEN <<[semantic |-> partial[1], procedural |-> r]>>
                        ELSE <<r>>
         /\ pc' = "returned"
         /\ UNCHANGED <<cur, query_embedding, partial>>

QueryCall(ok, response) ==
    [api |-> "query_vectors", target |-> CurTarget, queryVector |-> query_embedding,
     topK |-> CurTopK, filter |-> CurFilter, returnDistance |-> TRUE,
     returnMetadata |-> TRUE, ok |-> ok, response |-> response]

\* variant: the records are put in another order before they are returned
ReturnedVectors_reordered(response) ==
    LET v == Get(response, "vectors", <<>>) IN [n \in 1..Len(v) |-> v[Len(v) + 1 - n]]

\* lines 48, 68, 88: return response.get('vectors', [])
ReturnedVectors(response) == Get(response, "vectors", <<>>)

\* lines 38-48, 58-68, 78-88: query_vectors returns
QueryVectorsOk ==
    /\ pc = "query_vectors"
    /\ \E response \in QueryResponses(store, CurTarget, query_embedding, CurTopK, CurFilter) :
        /\ Finish(ReturnedVectors(response))
        /\ q_log' = Append(q_log, QueryCall(TRUE, response))
    /\ UNCHANGED <<otherVars, provVars, corpus, store, run, ingestVars, uploadVars, histVars, call>>

\* lines 49-51, 69-71, 89-91: query_vectors raises
QueryVectorsFail ==
    /\ pc = "query_vectors"
    /\ Finish(ErrorResult)
    /\ q_log' = Append(q_log, QueryCall(FALSE, [vectors |-> <<>>]))
    /\ UNCHANGED <<otherVars, provVars, corpus, store, run, ingestVars, uploadVars, histVars, call>>

(***************************************************************************)
(* Module_1/12_database_connectivity: PostgresConnector and its users.     *)
(* The database driver is external: each of its calls returns or raises.   *)
(***************************************************************************)
\* connector.py, lines 15-16: no connection, no cursor
None == "None"

\* the k-th connection made by the driver, and the cursor made from a connection
ConnId(k) == "conn" \o ToString(k)
CursorOf(c) == "cursor of " \o c

\* the operations of DataManager, SchemaManager that run in "with connect()"
QueryOps ==
    {"DataManager.select_all", "DataManager.select_where",
     "SchemaManager.list_tables", "SchemaManager.table_columns"}
WriteOps ==
    {"DataManager.insert_customer", "DataManager.insert_order",
     "DataManager.update_customer_email", "DataManager.delete_order",
     "SchemaManager.create_schema_if_not_exists", "SchemaManager.drop_schema"}
TwoWriteOps ==
    {"SchemaManager.create_customers_orders_tables", "SchemaManager.drop_tables"}
ManagerOps == QueryOps \cup WriteOps \cup TwoWriteOps \cup {"DataManager.run_query"}

\* the driver calls of the with-block of an operation, in order;
\* "try fetchall" is the fetchall of run_query, whose error is caught
BodyOf(name) ==
    IF name \in QueryOps THEN <<"execute", "fetchall">>
    ELSE IF name \in WriteOps THEN <<"execute", "commit">>
    ELSE IF name \in TwoWriteOps THEN <<"execute", "execute", "commit">>
    ELSE <<"execute", "try fetchall">>

\* the with-blocks of a direct caller of connect(): empty, or one statement
Bodies == {<<>>, <<"execute">>}

\* the operations that enter connect()
UsesConnect(name) == name = "connect" \/ name \in ManagerOps

\* open(), lines 20-28: where control goes when open() returns
AfterOpen(name) ==
    IF name = "open" THEN "c_return"
    ELSE IF name = "CSVLoader.load_csv_copy" THEN "copy"
    ELSE "body"

\* where control goes when open() raises: connect() calls it inside its try
\* (connector.py, lines 53-57), load_csv_copy before its try (csv_loader.py,
\* lines 42-43)
OpenRaisesTo(name) == IF UsesConnect(name) THEN "close_cur" ELSE "c_raise"

\* variant: close is reached only when the with-block ends normally
OnBodyError_leave == "c_raise"

\* connector.py, lines 55-57: an exception of the with-block reaches finally
OnBodyError == "close_cur"

\* variant: the error of cur.close() leaves close()
OnCurCloseError_raise == "c_raise"

\* connector.py, lines 35-36: the error of cur.close() is passed over
OnCurCloseError == "close_conn"

\* connector.py, lines 40-41: the error of conn.close() is passed over
OnConnCloseError == "close_end"

\* close() is over: back in the caller
AfterClose(name, e) ==
    IF name = "close" THEN "c_return"
    ELSE IF e = "" THEN "c_return" ELSE "c_raise"

DriverCall(api, on, ok) == [api |-> api, on |-> on, ok |-> ok]

\* an operation is called on the connector
StartOp(o, b, e) ==
    /\ pc = "c_idle"
    /\ ops < MaxOps
    /\ ops' = ops + 1
    /\ op' = o
    /\ body' = b
    /\ exc' = e
    /\ outcome' = ""
    /\ clog' = <<>>
    /\ entry' = [conn |-> pg_conn, cur |-> pg_cur]
    /\ UNCHANGED <<pipelineVars, rewardVars, pg_conn, pg_cur, created, close_calls>>

\* connector.open() called directly
CallOpen ==
    /\ StartOp([name |-> "open"], <<>>, "")
    /\ pc' = "open"

\* connector.close() called directly
CallClose ==
    /\ StartOp([name |-> "close"], <<>>, "")
    /\ pc' = "close_cur"

\* with connector.connect() as (conn, cur): ...
CallConnect ==
    /\ \E b \in Bodies : StartOp([name |-> "connect"], b, "")
    /\ pc' = "open"

\* an operation of DataManager or SchemaManager
CallManager ==
    /\ \E name \in ManagerOps : StartOp([name |-> name], BodyOf(name), "")
    /\ pc' = "open"

\* load_csv_copy, lines 20-42, the file exists
CallLoadCsv ==
    /\ StartOp([name |-> "CSVLoader.load_csv_copy"], <<>>, "")
    /\ pc' = "open"

\* load_csv_copy, lines 20-21, the file does not exist
LoadCsvMissing ==
    /\ StartOp([name |-> "CSVLoader.load_csv_copy"], <<>>, "FileNotFoundError")
    /\ pc' = "c_raise"

\* what a step inside an operation leaves alone
ConnFrame == UNCHANGED <<pipelineVars, rewardVars, op, entry, ops, outcome>>

\* open(), line 20: the connector is open already, nothing is done
OpenNoop ==
    /\ pc = "open"
    /\ pg_conn # None
    /\ pc' = AfterOpen(op.name)
    /\ ConnFrame
    /\ UNCHANGED <<pg_conn, pg_cur, body, exc, clog, created, close_calls>>

\* open(), lines 21-27: psycopg2.connect returns
ConnectOk ==
    /\ pc = "open"
    /\ pg_conn = None
    /\ LET c == ConnId(Cardinality({x \in created : x.kind = "connection"}) + 1) IN
        /\ pg_conn' = c
        /\ created' = created \cup {[kind |-> "connection", id |-> c]}
        /\ clog' = Append(clog, DriverCall("connect", c, TRUE))
    /\ pc' = "open_cursor"
    /\ ConnFrame
    /\ UNCHANGED <<pg_cur, body, exc, close_calls>>

\* open(), lines 21-27: psycopg2.connect raises
ConnectFail ==
    /\ pc = "open"
    /\ pg_conn = None
    /\ clog' = Append(clog, DriverCall("connect", None, FALSE))
    /\ exc' = "OperationalError"
    /\ pc' = OpenRaisesTo(op.name)
    /\ ConnFrame
    /\ UNCHANGED <<pg_conn, pg_cur, body, created, close_calls>>

\* open(), line 28: conn.cursor() returns
CursorOk ==
    /\ pc = "open_cursor"
    /\ pg_cur' = CursorOf(pg_conn)
    /\ created' = created \cup {[kind |-> "cursor", id |-> CursorOf(pg_conn)]}
    /\ clog' = Append(clog, DriverCall("cursor", pg_conn, TRUE))
    /\ pc' = AfterOpen(op.name)
    /\ ConnFrame
    /\ UNCHANGED <<pg_conn, body, exc, close_calls>>

\* open(), line 28: conn.cursor() raises; self.conn is assigned already
CursorFail ==
    /\ pc = "open_cursor"
    /\ clog' = Append(clog, DriverCall("cursor", pg_conn, FALSE))
    /\ exc' = "OperationalError"
    /\ pc' = OpenRaisesTo(op.name)
    /\ ConnFrame
    /\ UNCHANGED <<pg_conn, pg_cur, body, created, close_calls>>

\* the object a statement of the with-block is called on
Receiver(stmt) == IF stmt = "commit" THEN pg_conn ELSE pg_cur

\* a statement of the with-block returns
BodyStepOk ==
    /\ pc = "body"
    /\ body # <<>>
    /\ Receiver(Head(body)) # None
    /\ clog' = Append(clog, DriverCall(Head(body), Receiver(Head(body)), TRUE))
    /\ body' = Tail(body)
    /\ ConnFrame
    /\ UNCHANGED <<pc, pg_conn, pg_cur, exc, created, close_calls>>

\* a statement of the with-block raises (always, when called on None)
BodyStepFail ==
    /\ pc = "body"
    /\ body # <<>>
    /\ Head(body) # "try fetchall"
    /\ clog' = Append(clog, DriverCall(Head(body), Receiver(Head(body)), FALSE))
    /\ exc' = "Error"
    /\ pc' = OnBodyError
    /\ ConnFrame
    /\ UNCHANGED <<pg_conn, pg_cur, body, created, close_calls>>

\* run_query, lines 81-84: fetchall raises, None is returned
FetchallCaught ==
    /\ pc = "body"
    /\ body # <<>>
    /\ Head(body) = "try fetchall"
    /\ clog' = Append(clog, DriverCall("fetchall", pg_cur, FALSE))
    /\ body' = Tail(body)
    /\ ConnFrame
    /\ UNCHANGED <<pc, pg_conn, pg_cur, exc, created, close_calls>>

\* the with-block is left normally: connect(), lines 56-57
BodyDone ==
    /\ pc = "body"
    /\ body = <<>>
    /\ pc' = "close_cur"
    /\ ConnFrame
    /\ UNCHANGED <<pg_conn, pg_cur, body, exc, clog, created, close_calls>>

\* load_csv_copy, lines 44-46: copy_expert returns
CopyOk ==
    /\ pc = "copy"
    /\ pg_cur # None
    /\ clog' = Append(clog, DriverCall("copy_expert", pg_cur, TRUE))
    /\ pc' = "commit"
    /\ ConnFrame
    /\ UNCHANGED <<pg_conn, pg_cur, body, exc, created, close_calls>>

\* load_csv_copy, lines 44-49: opening the file or copy_expert raises
CopyFail ==
    /\ pc = "copy"
    /\ clog' = Append(clog, DriverCall("copy_expert", pg_cur, FALSE))
    /\ exc' = "Error"
    /\ pc' = "close_cur"
    /\ ConnFrame
    /\ UNCHANGED <<pg_conn, pg_cur, body, created, close_calls>>

\* load_csv_copy, line 47, and connector.commit, lines 59-61: commit returns
CsvCommitOk ==
    /\ pc = "commit"
    /\ clog' = IF pg_conn # None
               THEN Append(clog, DriverCall("commit", pg_conn, TRUE)) ELSE clog
    /\ pc' = "close_cur"
    /\ ConnFrame
    /\ UNCHANGED <<pg_conn, pg_cur, body, exc, created, close_calls>>

\* load_csv_copy, lines 47-49: commit raises
CsvCommitFail ==
    /\ pc = "commit"
    /\ pg_conn # None
    /\ clog' = Append(clog, DriverCall("commit", pg_conn, FALSE))
    /\ exc' = "Error"
    /\ pc' = "close_cur"
    /\ ConnFrame
    /\ UNCHANGED <<pg_conn, pg_cur, body, created, close_calls>>

\* close(), line 33: there is no cursor
CloseCurSkip ==
    /\ pc = "close_cur"
    /\ pg_cur = None
    /\ pc' = "close_conn"
    /\ ConnFrame
    /\ UNCHANGED <<pg_conn, pg_cur, body, exc, clog, created, close_calls>>

\* close(), lines 33-34: cur.close() returns
CloseCurOk ==
    /\ pc = "close_cur"
    /\ pg_cur # None
    /\ clog' = Append(clog, DriverCall("cur.close", pg_cur, TRUE))
    /\ close_calls' = close_calls \cup {[kind |-> "cursor", id |-> pg_cur]}
    /\ pc' = "close_conn"
    /\ ConnFrame
    /\ UNCHANGED <<pg_conn, pg_cur, body, exc, created>>

\* close(), lines 33-36: cur.close() raises
CloseCurFail ==
    /\ pc = "close_cur"
    /\ pg_cur # None
    /\ clog' = Append(clog, DriverCall("cur.close", pg_cur, FALSE))
    /\ close_calls' = close_calls \cup {[kind |-> "cursor", id |-> pg_cur]}
    /\ pc' = OnCurCloseError
    /\ ConnFrame
    /\ UNCHANGED <<pg_conn, pg_cur, body, exc, created>>

\* close(), line 38: there is no connection
CloseConnSkip ==
    /\ pc = "close_conn"
    /\ pg_conn = None
    /\ pc' = "close_end"
    /\ ConnFrame
    /\ UNCHANGED <<pg_conn, pg_cur, body, exc, clog, created, close_calls>>

\* close(), lines 38-39: conn.close() returns
CloseConnOk ==
    /\ pc = "close_conn"
    /\ pg_conn # None
    /\ clog' = Append(clog, DriverCall("conn.close", pg_conn, TRUE))
    /\ close_calls' = close_calls \cup {[kind |-> "connection", id |-> pg_conn]}
    /\ pc' = "close_end"
    /\ ConnFrame
    /\ UNCHANGED <<pg_conn, pg_cur, body, exc, created>>

\* close(), lines 38-41: conn.close() raises
CloseConnFail ==
    /\ pc = "close_conn"
    /\ pg_conn # None
    /\ clog' = Append(clog, DriverCall("conn.close", pg_conn, FALSE))
    /\ close_calls' = close_calls \cup {[kind |-> "connection", id |-> pg_conn]}
    /\ pc' = OnConnCloseError
    /\ ConnFrame
    /\ UNCHANGED <<pg_conn, pg_cur, body, exc, created>>

\* close(), lines 42-43
CloseEnd ==
    /\ pc = "close_end"
    /\ pg_cur' = None
    /\ pg_conn' = None
    /\ pc' = AfterClose(op.name, exc)
    /\ ConnFrame
    /\ UNCHANGED <<body, exc, clog, created, close_calls>>

\* the operation returns to its caller
OpReturn ==
    /\ pc = "c_return"
    /\ outcome' = "returned"
    /\ pc' = "c_idle"
    /\ UNCHANGED <<pipelineVars, rewardVars, pg_conn, pg_cur, op, body, exc, clog,
                   created, close_calls, entry, ops>>

\* the operation raises to its caller
OpRaise ==
    /\ pc = "c_raise"
    /\ outcome' = "raised"
    /\ pc' = "c_idle"
    /\ UNCHANGED <<pipelineVars, rewardVars, pg_conn, pg_cur, op, body, exc, clog,
                   created, close_calls, entry, ops>>

InitConn ==
    /\ pg_conn = None
    /\ pg_cur = None
    /\ op = [name |-> "none"]
    /\ body = <<>>
    /\ exc = ""
    /\ outcome = ""
    /\ clog = <<>>
    /\ created = {}
    /\ close_calls = {}
    /\ entry = [conn |-> None, cur |-> None]
    /\ ops = 0

(***************************************************************************)
(* Module_0/reward_model/reward_model_as_api.py: the reward-model API.     *)
(* Scores are integers in units of 1e-5.                                   *)
(***************************************************************************)
Prompts == {"How do I make scrambled eggs?"}
ResponsePool == {"Put eggs in pan.", "Whisk eggs, cook slowly.", "I don't know."}

\* the scores the model may give: two of them round to the same value
Scores == {0 - 12345, 12346, 12354}
RewardModels == [ResponsePool -> Scores]

\* RankRequest.responses (min_items = 2) and BatchScoreRequest.items (min_items = 1)
ItemLists(least) == UNION {[1..n -> ResponsePool] : n \in least..MaxItems}

\* round(score, 4): to the nearest multiple of 1e-4, a tie to the even one
Round4(x) ==
    LET q == x \div 10
        r == x % 10
    IN  IF r < 5 THEN q
        ELSE IF r > 5 THEN q + 1
        ELSE IF q % 2 = 0 THEN q ELSE q + 1

\* variant: reverse=True is left out of the sort
ComesFirst_ascending(old, new) == old.score <= new.score

\* list.sort(key = score, reverse = True), line 307: the sort is stable, of
\* two equal scores the one that came first stays first
ComesFirst(old, new) == old.score >= new.score

RECURSIVE InsertByScore(_, _)
InsertByScore(sorted, x) ==
    IF sorted = <<>> THEN <<x>>
    ELSE IF ComesFirst(Head(sorted), x)
         THEN <<Head(sorted)>> \o InsertByScore(Tail(sorted), x)
         ELSE <<x>> \o sorted

RECURSIVE SortByScore(_)
SortByScore(l) ==
    IF l = <<>> THEN <<>>
    ELSE InsertByScore(SortByScore(SubSeq(l, 1, Len(l) - 1)), l[Len(l)])

\* lines 310-317: enumerate(scored_responses, 1)
Ranked(l) ==
    [n \in 1..Len(l) |->
        [rank |-> n, response |-> l[n].response, score |-> Round4(l[n].score)]]

\* variant: the check is made inside the try block and its HTTPException is
\* caught by the handler
NotLoaded_caught == [status |-> 500, detail |-> "Scoring failed: 503: Model not loaded"]

\* lines 238, 252, 271, 297, 354: raised before the try block
NotLoaded == [status |-> 503, detail |-> "Model not loaded"]

\* lines 284-286, 325-327, 375-377
ScoringFailed == [status |-> 500, detail |-> "Scoring failed"]

Ok(b) == [status |-> 200, body |-> b]

\* the server is ready for a request: before or after the startup event
Waiting == pc \in {"r_created", "r_serving"}

RewardFrame == UNCHANGED <<pipelineVars, connVars, scoreOf>>

\* load_model, line 165: the tokenizer is loaded.  The startup event runs
\* before the first request or, when the application is driven without its
\* startup event, not at all.
LoadTokenizerOk ==
    /\ pc = "r_created"
    /\ served = 0
    /\ tokenizer' = "tokenizer"
    /\ pc' = "load_model"
    /\ RewardFrame
    /\ UNCHANGED <<model, loaded_at, request, scored_responses, itemIdx, http,
                   invocations, served>>

\* load_model, line 166: the model is loaded
LoadModelOk ==
    /\ pc = "load_model"
    /\ model' = "model"
    /\ pc' = "model_setup"
    /\ RewardFrame
    /\ UNCHANGED <<tokenizer, loaded_at, request, scored_responses, itemIdx, http,
                   invocations, served>>

\* load_model, lines 167-171: eval(), to(DEVICE), loaded_at
ModelSetupOk ==
    /\ pc = "model_setup"
    /\ loaded_at' = "loaded_at"
    /\ pc' = "r_serving"
    /\ RewardFrame
    /\ UNCHANGED <<tokenizer, model, request, scored_responses, itemIdx, http,
                   invocations, served>>

\* load_model, lines 173-175: a step of the loading raises, the error is logged
\* and raised again, and the server does not start
LoadFail ==
    /\ \/ pc = "r_created" /\ served = 0
       \/ pc \in {"load_model", "model_setup"}
    /\ pc' = "r_startup_failed"
    /\ RewardFrame
    /\ UNCHANGED <<tokenizer, model, loaded_at, request, scored_responses, itemIdx,
                   http, invocations, served>>

NoRequest == [endpoint |-> "", prompt |-> "", items |-> <<>>]

\* a handler without a body to read: the check of lines 237-238 and 251-252,
\* then the answer
Answer(endpoint, b) ==
    /\ served < MaxRequests
    /\ served' = served + 1
    /\ request' = [endpoint |-> endpoint, prompt |-> "", items |-> <<>>]
    /\ http' = <<IF model = None THEN NotLoaded ELSE Ok(b)>>
    /\ pc' = "r_respond"
    /\ RewardFrame
    /\ UNCHANGED <<tokenizer, model, loaded_at, scored_responses, itemIdx, invocations>>

\* health_check, lines 234-245
HealthCheck ==
    /\ Waiting
    /\ Answer("/health", [status |-> "healthy"])

\* get_model_info, lines 248-260
GetModelInfo ==
    /\ Waiting
    /\ Answer("/model-info", [loaded_at |-> loaded_at])

\* the head of a scoring handler: the check of lines 270-271, 296-297 and
\* 353-354 comes before the try block
Post(endpoint, prompt, items) ==
    /\ served < MaxRequests
    /\ served' = served + 1
    /\ request' = [endpoint |-> endpoint, prompt |-> prompt, items |-> items]
    /\ scored_responses' = <<>>
    /\ itemIdx' = 1
    /\ IF model = None
       THEN http' = <<NotLoaded>> /\ pc' = "r_respond"
       ELSE http' = <<>> /\ pc' = "scoring"
    /\ RewardFrame
    /\ UNCHANGED <<tokenizer, model, loaded_at, invocations>>

\* score_response, lines 263-271
ScoreResponse ==
    /\ Waiting
    /\ \E p \in Prompts, r \in ResponsePool : Post("/score", p, <<r>>)

\* rank_responses, lines 289-297
RankResponses ==
    /\ Waiting
    /\ \E p \in Prompts, l \in ItemLists(2) : Post("/rank", p, l)

\* batch_score, lines 346-354
BatchScore ==
    /\ Waiting
    /\ \E p \in Prompts, l \in ItemLists(1) : Post("/batch/score", p, l)

\* score_single_response, lines 182-213, returns the score of the next item
ScoreSingleOk ==
    /\ pc = "scoring"
    /\ itemIdx <= Len(request.items)
    /\ invocations' = invocations + 1
    /\ scored_responses' =
           Append(scored_responses, [response |-> request.items[itemIdx],
                                     score |-> scoreOf[request.items[itemIdx]]])
    /\ itemIdx' = itemIdx + 1
    /\ RewardFrame
    /\ UNCHANGED <<pc, tokenizer, model, loaded_at, request, http, served>>

\* score_single_response raises: lines 284-286, 325-327, 375-377
ScoreSingleFail ==
    /\ pc = "scoring"
    /\ itemIdx <= Len(request.items)
    /\ invocations' = invocations + 1
    /\ http' = <<ScoringFailed>>
    /\ pc' = "r_respond"
    /\ RewardFrame
    /\ UNCHANGED <<tokenizer, model, loaded_at, request, scored_responses, itemIdx,
                   served>>

Scored(l) ==
    [n \in 1..Len(l) |->
        [prompt |-> request.prompt, response |-> l[n].response,
         score |-> Round4(l[n].score)]]

\* lines 277-282
ScoreBody == Scored(scored_responses)[1]

\* lines 307-323
RankBody(sorted) == [prompt |-> request.prompt, ranked_responses |-> Ranked(sorted)]

\* lines 369-373
BatchBody == [results |-> Scored(scored_responses), count |-> Len(scored_responses)]

\* every item is scored: the handler builds its answer
Respond ==
    /\ pc = "scoring"
    /\ itemIdx > Len(request.items)
    /\ LET sorted == SortByScore(scored_responses)
       IN  IF request.endpoint = "/rank"
           THEN /\ scored_responses' = sorted
                /\ http' = <<Ok(RankBody(sorted))>>
           ELSE /\ scored_responses' = scored_responses
                /\ http' = <<Ok(IF request.endpoint = "/score" THEN ScoreBody
                                ELSE BatchBody)>>
    /\ pc' = "r_respond"
    /\ RewardFrame
    /\ UNCHANGED <<tokenizer, model, loaded_at, request, itemIdx, invocations, served>>

\* the answer is sent to the client and the handler's frame is gone
SendResponse ==
    /\ pc = "r_respond"
    /\ pc' = IF model = None THEN "r_created" ELSE "r_serving"
    /\ request' = NoRequest
    /\ scored_responses' = <<>>
    /\ itemIdx' = 1
    /\ http' = <<>>
    /\ RewardFrame
    /\ UNCHANGED <<tokenizer, model, loaded_at, invocations, served>>

\* ModelState, lines 143-147, and a model whose scores are fixed
InitReward ==
    /\ tokenizer = None
    /\ model = None
    /\ loaded_at = None
    /\ scoreOf \in RewardModels
    /\ request = NoRequest
    /\ scored_responses = <<>>
    /\ itemIdx = 1
    /\ http = <<>>
    /\ invocations = 0
    /\ served = 0

\* the parts of the repository that a pipeline run does not touch
InitOther ==
    /\ InitConn
    /\ scoreOf = [r \in ResponsePool |-> 12346]
    /\ tokenizer = None /\ model = None /\ loaded_at = None
    /\ request = NoRequest /\ scored_responses = <<>> /\ itemIdx = 1
    /\ http = <<>> /\ invocations = 0 /\ served = 0

(***************************************************************************)
(* Specifications.                                                         *)
(***************************************************************************)
InitLocals ==
    /\ fileIdx = 0
    /\ all_semantic_vectors = <<>>
    /\ all_procedural_vectors = <<>>
    /\ table_name = ""
    /\ chunks = <<>>
    /\ chunkIdx = 0
    /\ semantic_vectors = <<>>
    /\ procedural_vectors = <<>>
    /\ result = <<>>
    /\ logged_total = <<>>
    /\ puts = <<>>
    /\ embedCalls = 0
    /\ embedded = <<>>
    /\ embedFailed = FALSE
    /\ parseLog = {}
    /\ prev = [store |-> EmptyStore, done |-> FALSE, complete |-> FALSE]
    /\ run = 1

\* the ingestion program, run on a data directory
NoCall == [op |-> "none"]

InitQuery ==
    /\ call = NoCall
    /\ cur = ""
    /\ query_embedding = <<>>
    /\ partial = <<>>
    /\ q_result = <<>>
    /\ q_log = <<>>

\* the constructor has run and found or created every bucket and index
Provisioned ==
    /\ buckets = {BucketList[k] : k \in 1..Len(BucketList)}
    /\ indexes = Targets
    /\ provIdx = 0
    /\ provLog = <<>>
    /\ existed = [buckets |-> buckets, indexes |-> indexes]
    /\ error_log = <<>>

Init ==
    /\ \/ data_path_exists = TRUE /\ corpus \in Corpora
       \/ data_path_exists = FALSE /\ corpus = <<>>
    /\ Provisioned
    /\ store = EmptyStore
    /\ pc = "ingest_all"
    /\ InitLocals
    /\ InitQuery
    /\ InitOther
    /\ vectors = <<>>
    /\ bucket = ""
    /\ index_name = ""
    /\ i = 0
    /\ total_uploaded = 0
    /\ ret = ""

Next ==
    \/ IngestAll
    \/ ProcessFile
    \/ EmbedOk
    \/ EmbedFail
    \/ ProcessFileReturn
    \/ UploadSemantic
    \/ UploadProcedural
    \/ UploadEmpty
    \/ PutOk
    \/ PutFail
    \/ UploadDone
    \/ IngestReturn
    \/ Rerun

Spec == Init /\ [][Next]_vars

\* upload_vectors called directly on a list of n vectors
InitUpload ==
    /\ corpus = <<>>
    /\ data_path_exists = TRUE
    /\ Provisioned
    /\ store = EmptyStore
    /\ InitLocals
    /\ InitQuery
    /\ InitOther
    /\ \E n \in 0..MaxN : vectors = TestVectors(n)
    /\ bucket = SEMANTIC_BUCKET
    /\ index_name = "semantic_index"
    /\ i = 0
    /\ total_uploaded = 0
    /\ ret = "caller"
    /\ pc = "upload"

NextUpload ==
    \/ UploadEmpty
    \/ PutOk
    \/ PutFail
    \/ UploadDone

SpecUpload == InitUpload /\ [][NextUpload]_vars

\* the retriever, called on indexes filled by an earlier ingestion
InitRetriever ==
    /\ corpus = <<>>
    /\ data_path_exists = TRUE
    /\ Provisioned
    /\ store \in SampleStores
    /\ InitLocals
    /\ InitQuery
    /\ InitOther
    /\ vectors = <<>>
    /\ bucket = ""
    /\ index_name = ""
    /\ i = 0
    /\ total_uploaded = 0
    /\ ret = ""
    /\ pc = "retriever"

NextRetriever ==
    \/ SearchSemantic
    \/ SearchProcedural
    \/ SearchWithFilter
    \/ SearchBoth
    \/ QueryEmbedOk
    \/ QueryEmbedFail
    \/ QueryVectorsOk
    \/ QueryVectorsFail

SpecRetriever == InitRetriever /\ [][NextRetriever]_vars

\* main(): the constructor and then ingest_all, on a store in which any of
\* the buckets and indexes may or may not exist already
InitProvision ==
    /\ corpus \in ProvisionCorpora
    /\ data_path_exists = TRUE
    /\ buckets \in SUBSET {BucketList[k] : k \in 1..Len(BucketList)}
    /\ indexes \in SUBSET {t \in Targets : t[1] \in buckets}
    /\ provIdx = 0
    /\ provLog = <<>>
    /\ existed = [buckets |-> buckets, indexes |-> indexes]
    /\ error_log = <<>>
    /\ store = EmptyStore
    /\ pc = "__init__"
    /\ InitLocals
    /\ InitQuery
    /\ InitOther
    /\ vectors = <<>>
    /\ bucket = ""
    /\ index_name = ""
    /\ i = 0
    /\ total_uploaded = 0
    /\ ret = ""

NextProvision ==
    \/ Construct
    \/ DescribeBucketOk
    \/ DescribeBucketFail
    \/ CreateBucketOk
    \/ CreateBucketFail
    \/ DescribeIndexOk
    \/ DescribeIndexFail
    \/ CreateIndexOk
    \/ CreateIndexFail
    \/ IngestAll
    \/ ProcessFile
    \/ EmbedOk
    \/ EmbedFail
    \/ ProcessFileReturn
    \/ UploadSemantic
    \/ UploadProcedural
    \/ UploadEmpty
    \/ PutOk
    \/ PutFail
    \/ UploadDone
    \/ IngestReturn

SpecProvision == InitProvision /\ [][NextProvision]_vars

\* no ingestion and no search is running
InitPipeline ==
    /\ corpus = <<>>
    /\ data_path_exists = TRUE
    /\ Provisioned
    /\ store = EmptyStore
    /\ InitLocals
    /\ InitQuery
    /\ vectors = <<>>
    /\ bucket = ""
    /\ index_name = ""
    /\ i = 0
    /\ total_uploaded = 0
    /\ ret = ""

\* Module_1/12_database_connectivity: one PostgresConnector shared by a
\* DataManager, a SchemaManager and a CSVLoader, and a sequence of calls
InitConnector ==
    /\ InitPipeline
    /\ InitOther
    /\ pc = "c_idle"

NextConnector ==
    \/ CallOpen
    \/ CallClose
    \/ CallConnect
    \/ CallManager
    \/ CallLoadCsv
    \/ LoadCsvMissing
    \/ OpenNoop
    \/ ConnectOk
    \/ ConnectFail
    \/ CursorOk
    \/ CursorFail
    \/ BodyStepOk
    \/ BodyStepFail
    \/ FetchallCaught
    \/ BodyDone
    \/ CopyOk
    \/ CopyFail
    \/ CsvCommitOk
    \/ CsvCommitFail
    \/ CloseCurSkip
    \/ CloseCurOk
    \/ CloseCurFail
    \/ CloseConnSkip
    \/ CloseConnOk
    \/ CloseConnFail
    \/ CloseEnd
    \/ OpReturn
    \/ OpRaise

SpecConnector == InitConnector /\ [][NextConnector]_vars

\* Module_0/reward_model: the reward-model API and a sequence of requests
InitRewardApi ==
    /\ InitPipeline
    /\ InitConn
    /\ InitReward
    /\ pc = "r_created"

NextReward ==
    \/ LoadTokenizerOk
    \/ LoadModelOk
    \/ ModelSetupOk
    \/ LoadFail
    \/ HealthCheck
    \/ GetModelInfo
    \/ ScoreResponse
    \/ RankResponses
    \/ BatchScore
    \/ ScoreSingleOk
    \/ ScoreSingleFail
    \/ Respond
    \/ SendResponse

SpecReward == InitRewardApi /\ [][NextReward]_vars

(***************************************************************************)
(* Claims.                                                                 *)
(***************************************************************************)

\* C1: parse_chunk classifies a chunk as procedural iff its entity_type is
\* "query_example"; any other value, and a missing entity_type (reported as
\* "unknown"), is semantic; equal inputs always give equal outputs.
C1_Classification ==
    /\ \A e \in parseLog :
        /\ e.out.memory_type \in {"procedural", "semantic"}
        /\ e.out.memory_type = "procedural" <=> IsQueryExample(e.chunk)
        /\ "entity_type" \notin DOMAIN e.chunk =>
              /\ e.out.metadata.entity_type = "unknown"
              /\ e.out.memory_type = "semantic"
    /\ \A e1, e2 \in parseLog :
        (e1.chunk = e2.chunk /\ e1.table = e2.table) => e1.out = e2.out

C1_Witness ==
    /\ \E e \in parseLog :
          "entity_type" \notin DOMAIN e.chunk /\ e.out.memory_type = "semantic"
    /\ \E e \in parseLog :
          IsQueryExample(e.chunk) /\ e.out.memory_type = "procedural"

\* C2: the two counts returned by ingest_all add up to the number of chunks
\* embedded, every embedded chunk being in exactly one of the two lists.
C2_CountsAddUp ==
    /\ ~embedFailed =>
          Len(all_semantic_vectors) + Len(all_procedural_vectors)
            + Len(semantic_vectors) + Len(procedural_vectors) = embedCalls
    /\ pc = "done" =>
          /\ result # <<>>
          /\ result[1].semantic_count + result[1].procedural_count = embedCalls
          /\ embedCalls = Len(FlatChunks(corpus))
          /\ result[1].semantic_count = Len(ExpectedSemantic)
          /\ result[1].procedural_count = Len(ExpectedProcedural)

C2_Witness ==
    /\ pc = "done"
    /\ Len(corpus) = 1
    /\ Len(corpus[1].chunks) = 2
    /\ Get(corpus[1].chunks[1], "entity_type", "") = "column"
    /\ IsQueryExample(corpus[1].chunks[2])
    /\ result[1].semantic_count = 1
    /\ result[1].procedural_count = 1

\* C3: upload_vectors on N records issues ceil(N / 100) put_vectors calls, the
\* n-th carrying the n-th slice of at most 100 records, the last one N mod 100
\* records (100 when N is a positive multiple of 100); none when N = 0.
C3_BatchSplitting ==
    /\ \A n \in 1..Len(puts) :
        /\ puts[n].vectors = NthBatch(vectors, n)
        /\ Len(puts[n].vectors) \in 1..batch_size
    /\ Len(puts) * batch_size = i
    /\ pc = "uploaded" =>
          /\ Len(puts) = NumBatches(Len(vectors))
          /\ vectors = <<>> => puts = <<>>
          /\ vectors # <<>> =>
                Len(puts[Len(puts)].vectors) =
                    IF Len(vectors) % batch_size = 0 THEN batch_size
                    ELSE Len(vectors) % batch_size

C3_Witness ==
    /\ pc = "uploaded"
    /\ Len(vectors) = 2 * batch_size + 1
    /\ Len(puts) = 3
    /\ Len(puts[3].vectors) = 1

\* C4: whatever put_vectors calls fail, every batch is attempted exactly
\* once and in order (no abort, no retry), and what a successful batch wrote
\* stays in the index (no rollback).
C4_EveryBatchOnce ==
    /\ pc = "uploaded" =>
          /\ Len(puts) = NumBatches(Len(vectors))
          /\ \A n \in 1..Len(puts) : puts[n].vectors = NthBatch(vectors, n)
    /\ \A n \in 1..Len(puts) :
          puts[n].ok =>
            \A j \in 1..Len(puts[n].vectors) :
                LET v == puts[n].vectors[j] IN
                /\ v.key \in DOMAIN store[<<bucket, index_name>>]
                /\ store[<<bucket, index_name>>][v.key] = StoredRecord(v)
    /\ \A k \in DOMAIN store[<<bucket, index_name>>] :
          \E n \in 1..Len(puts) :
            /\ puts[n].ok
            /\ \E j \in 1..Len(puts[n].vectors) : puts[n].vectors[j].key = k

C4_Witness ==
    /\ pc = "uploaded"
    /\ Len(puts) = 3
    /\ ~puts[1].ok
    /\ puts[2].ok
    /\ ~puts[3].ok
    /\ Cardinality(DOMAIN store[<<bucket, index_name>>]) = batch_size

\* C5: the total computed by upload_vectors is the number of records of the
\* batches whose put_vectors call succeeded.
C5_TotalCountsSuccesses ==
    /\ total_uploaded = SumOk(puts)
    /\ (pc = "uploaded" /\ vectors # <<>>) => logged_total = <<SumOk(puts)>>

C5_Witness ==
    /\ pc = "uploaded"
    /\ Len(puts) = 3
    /\ puts[1].ok
    /\ ~puts[2].ok
    /\ puts[3].ok
    /\ logged_total = <<Len(puts[1].vectors) + Len(puts[3].vectors)>>
    /\ logged_total[1] < Len(vectors)

\* C6: when embed_query raises for a chunk, ingest_all raises: it returns no
\* summary, writes nothing, and no further embed_query call is made in the run.
C6_EmbedFailureAborts ==
    /\ [](embedFailed => (pc = "raised" /\ result = <<>> /\ puts = <<>>))
    /\ [][(embedFailed /\ run' = run) =>
            UNCHANGED <<embedCalls, pc, result, store>>]_vars

C6_Witness ==
    /\ embedFailed
    /\ pc = "raised"
    /\ embedCalls > 1

\* C7: a retriever call never raises, whichever remote call fails.
C7_QueriesNeverRaise == pc # "q_raised"

\* C8: when query_vectors raises, the search returns the empty list, the
\* value a successful query without matches returns; a search returns what
\* the store answered otherwise.
C8_QueryFailureReturnsEmpty ==
    /\ (pc = "returned" /\ call.op # "search_both") =>
          /\ Len(q_log) = 2
          /\ q_log[2].api = "query_vectors"
          /\ q_result = <<IF q_log[2].ok THEN q_log[2].response.vectors ELSE <<>>>>
    /\ (pc = "returned" /\ call.op = "search_both") =>
          /\ Len(q_log) = 4
          /\ q_log[2].api = "query_vectors"
          /\ q_log[4].api = "query_vectors"
          /\ q_result[1].semantic =
                IF q_log[2].ok THEN q_log[2].response.vectors ELSE <<>>
          /\ q_result[1].procedural =
                IF q_log[4].ok THEN q_log[4].response.vectors ELSE <<>>

C8_Witness ==
    /\ pc = "returned"
    /\ call.op = "search_semantic"
    /\ ~q_log[2].ok
    /\ q_result = << <<>> >>
    /\ store[SemanticTarget] # EmptyIndex

\* keys and metadata held by the store
KeysMeta(st) == [t \in Targets |-> [k \in DOMAIN st[t] |-> st[t][k].metadata]]

\* no chunk_id occurs twice in a partition of the corpus
UniqueKeys ==
    /\ \A a, b \in 1..Len(ExpectedSemantic) :
          ExpectedSemantic[a].key = ExpectedSemantic[b].key => a = b
    /\ \A a, b \in 1..Len(ExpectedProcedural) :
          ExpectedProcedural[a].key = ExpectedProcedural[b].key => a = b

PutsTo(idx) == SelectSeq(puts, LAMBDA c : c.index_name = idx)

\* positions of list es carrying key k in a batch that was written in this run
WrittenAt(es, k, ps) ==
    {j \in 1..Len(es) :
        /\ es[j].key = k
        /\ ((j - 1) \div batch_size) + 1 <= Len(ps)
        /\ ps[((j - 1) \div batch_size) + 1].ok}

Last(S) == CHOOSE j \in S : \A j2 \in S : j2 <= j

LastWriteWins(es, target, ps) ==
    \A j \in 1..Len(es) :
        LET at == WrittenAt(es, es[j].key, ps) IN
        /\ at # {} =>
              /\ es[j].key \in DOMAIN store[target]
              /\ store[target][es[j].key] = StoredRecord(es[Last(at)])
        /\ (at = {} /\ run = 1) => es[j].key \notin DOMAIN store[target]

\* C10: chunks of one partition with the same chunk_id (a missing chunk_id
\* is the key "unknown") are all handed to the store unchanged, and the index
\* ends with one record for the key, that of the chunk written last.
C10_LastWriteWins ==
    pc = "done" =>
        /\ all_semantic_vectors = ExpectedSemantic
        /\ all_procedural_vectors = ExpectedProcedural
        /\ LastWriteWins(ExpectedSemantic, SemanticTarget, PutsTo("semantic_index"))
        /\ LastWriteWins(ExpectedProcedural, ProceduralTarget, PutsTo("procedural_index"))
        /\ DOMAIN store[SemanticTarget] \subseteq
              {ExpectedSemantic[j].key : j \in 1..Len(ExpectedSemantic)}
        /\ DOMAIN store[ProceduralTarget] \subseteq
              {ExpectedProcedural[j].key : j \in 1..Len(ExpectedProcedural)}

C10_Witness ==
    /\ pc = "done"
    /\ AllPutsOk
    /\ Len(all_semantic_vectors) = 2
    /\ all_semantic_vectors[1].key = "unknown"
    /\ all_semantic_vectors[2].key = "unknown"
    /\ StoredRecord(all_semantic_vectors[1]) # StoredRecord(all_semantic_vectors[2])
    /\ DOMAIN store[SemanticTarget] = {"unknown"}
    /\ store[SemanticTarget]["unknown"] = StoredRecord(all_semantic_vectors[2])

C12_MissingDirectoryFails ==
    /\ ~data_path_exists =>
          /\ pc \in {"ingest_all", "raised"}
          /\ result = <<>>
    /\ (data_path_exists /\ corpus = <<>>) =>
          /\ load_json_files = <<>>
          /\ pc # "raised"
          /\ embedCalls = 0
          /\ puts = <<>>
          /\ pc = "done" =>
                /\ result[1].semantic_count = 0
                /\ result[1].procedural_count = 0

\* a result list is in non-decreasing distance order
Sorted(r) == \A a, b \in 1..Len(r) : a < b => r[a].distance <= r[b].distance

\* C13: a search returns its records in non-decreasing distance order and
\* returns at most top_k of them (in search_both: each list at most its k).
C13_SortedAtMostTopK ==
    pc = "returned" =>
        IF call.op = "search_both"
        THEN /\ Sorted(q_result[1].semantic)
             /\ Len(q_result[1].semantic) <= call.semantic_k
             /\ Sorted(q_result[1].procedural)
             /\ Len(q_result[1].procedural) <= call.procedural_k
        ELSE /\ Sorted(q_result[1])
             /\ Len(q_result[1]) <= call.top_k

C13_Witness ==
    /\ pc = "returned"
    /\ call.op = "search_semantic"
    /\ call.top_k = 2
    /\ Len(q_result[1]) = 2
    /\ q_result[1][1].distance < q_result[1][2].distance
    /\ q_result[1][1].key # q_result[1][2].key

\* C14: search_with_filter(query, table_name = T) returns only records whose
\* metadata table_name is T.
C14_FilterByTable ==
    (pc = "returned" /\ call.op = "search_with_filter") =>
        \A n \in 1..Len(q_result[1]) :
            /\ "table_name" \in DOMAIN q_result[1][n].metadata
            /\ q_result[1][n].metadata.table_name = call.table_name

C14_Witness ==
    /\ pc = "returned"
    /\ call.op = "search_with_filter"
    /\ call.table_name = "orders"
    /\ call.top_k = 2
    /\ Len(q_result[1]) = 1
    /\ q_result[1][1].metadata.table_name = "orders"
    /\ \E k \in DOMAIN store[SemanticTarget] :
          store[SemanticTarget][k].metadata.table_name = "customers"

\* the index of a partition
TargetOf(partition) ==
    IF partition = "procedural" THEN ProceduralTarget ELSE SemanticTarget

\* the query_vectors calls of the running retriever call
QueryCalls == SelectSeq(q_log, LAMBDA c : c.api = "query_vectors")

\* C15, as claimed: a search with a table filter sends its query to the index
\* of the partition it is to search, semantic or procedural, constrained to
\* the records whose table_name equals the filter.
C15_FilterOnNamedPartition ==
    call.op = "search_with_filter" =>
        \A n \in 1..Len(QueryCalls) :
            /\ QueryCalls[n].target = TargetOf(call.wanted)
            /\ QueryCalls[n].filter = <<[table_name |-> call.table_name]>>

\* C15, amended: a search with a table filter always sends its query to the
\* semantic index, constrained to the records whose table_name equals the
\* filter; no other search sends a filter, so the procedural index is never
\* queried with one.
C15_FilterOnSemanticOnly ==
    \A n \in 1..Len(QueryCalls) :
        /\ call.op = "search_with_filter" =>
              /\ QueryCalls[n].target = SemanticTarget
              /\ QueryCalls[n].filter = <<[table_name |-> call.table_name]>>
        /\ call.op # "search_with_filter" => QueryCalls[n].filter = <<>>
        /\ QueryCalls[n].target = ProceduralTarget => QueryCalls[n].filter = <<>>

C15_Witness ==
    /\ pc = "returned"
    /\ call.op = "search_with_filter"
    /\ call.wanted = "procedural"
    /\ Len(QueryCalls) = 1
    /\ QueryCalls[1].ok
    /\ QueryCalls[1].target = SemanticTarget
    /\ QueryCalls[1].filter = <<[table_name |-> "customers"]>>
    /\ q_result[1] # <<>>

\* what a single search gives for the n-th remote call of the retriever call
Outcome(n) == IF q_log[n].ok THEN q_log[n].response.vectors ELSE <<>>

\* the keys of a result list
KeysOf(r) == {r[n].key : n \in 1..Len(r)}

\* C16: search_both runs the semantic and the procedural search one
\* independently of the other and returns the two lists unmerged under the
\* keys "semantic" and "procedural", each list from its own index alone; on
\* two empty partitions it returns two empty lists; it never raises.
C16_SearchBothUnmerged ==
    call.op = "search_both" =>
        /\ pc # "q_raised"
        /\ pc = "returned" =>
              /\ DOMAIN q_result[1] = {"semantic", "procedural"}
              /\ Len(QueryCalls) = 2
              /\ QueryCalls[1].target = SemanticTarget
              /\ QueryCalls[1].topK = call.semantic_k
              /\ QueryCalls[2].target = ProceduralTarget
              /\ QueryCalls[2].topK = call.procedural_k
              /\ q_result[1].semantic = Outcome(2)
              /\ q_result[1].procedural = Outcome(4)
              /\ KeysOf(q_result[1].semantic) \subseteq DOMAIN store[SemanticTarget]
              /\ KeysOf(q_result[1].procedural) \subseteq DOMAIN store[ProceduralTarget]
              /\ store = EmptyStore =>
                    q_result[1] = [semantic |-> <<>>, procedural |-> <<>>]

\* the positions of the constructor
ProvisionPcs ==
    {"__init__", "describe_bucket", "create_bucket", "describe_index", "create_index"}

\* the resources the constructor is to provide, in its order
Resources == [n \in 1..Len(BucketList) |-> <<BucketList[n]>>] \o IndexList

Describes ==
    SelectSeq(provLog,
              LAMBDA c : c.api \in {"describe_vector_bucket", "describe_vector_index"})

Creates ==
    SelectSeq(provLog,
              LAMBDA c : c.api \in {"create_vector_bucket", "create_vector_index"})

FailedCreates == SelectSeq(Creates, LAMBDA c : ~c.ok)

\* no describe or create failure is raised, the constructor checks every
\* bucket and index in turn whatever failed before, and ingest_all then
\* embeds every chunk and writes to both indexes, existing or not
ProvisioningFailuresSwallowed ==
    /\ pc = "raised" => (embedFailed /\ Len(Describes) = Len(Resources))
    /\ pc \in ProvisionPcs => ENABLED NextProvision
    /\ Len(Describes) <= Len(Resources)
    /\ \A n \in 1..Len(Describes) : Describes[n].resource = Resources[n]
    /\ pc \notin ProvisionPcs => Len(Describes) = Len(Resources)
    /\ pc = "done" =>
          /\ embedCalls = Len(FlatChunks(corpus))
          /\ Len(PutsTo("semantic_index")) = NumBatches(Len(ExpectedSemantic))
          /\ Len(PutsTo("procedural_index")) = NumBatches(Len(ExpectedProcedural))

\* C17, as claimed: the failure of any describe or create call of the
\* constructor is logged and swallowed: never raised, the remaining buckets
\* and indexes are dealt with, and ingestion proceeds as if the resource
\* existed.
C17_FailuresLoggedAndSwallowed ==
    /\ ProvisioningFailuresSwallowed
    /\ pc \notin ProvisionPcs =>
          \A n \in 1..Len(provLog) :
              ~provLog[n].ok =>
                  \E m \in 1..Len(error_log) :
                      /\ error_log[m].api = provLog[n].api
                      /\ error_log[m].resource = provLog[n].resource

\* C17, amended: the same, except that only the failure of a create call is
\* logged; the failure of a describe call is taken as absence of the
\* resource and leads to the create call without a log entry.
C17_FailuresSwallowed ==
    /\ ProvisioningFailuresSwallowed
    /\ error_log = FailedCreates
    /\ \A n \in 1..Len(Describes) :
          \A m \in 1..Len(error_log) : error_log[m].api # Describes[n].api

C17_Witness ==
    /\ pc = "done"
    /\ corpus = ScenarioCorpus
    /\ indexes = {}
    /\ Len(FailedCreates) = Len(Resources)
    /\ Len(error_log) = Len(Resources)
    /\ Len(puts) = 2
    /\ ~puts[1].ok
    /\ ~puts[2].ok
    /\ result # <<>>

\* the existence check a create call belongs to
CheckOf(api) ==
    IF api = "create_vector_bucket" THEN "describe_vector_bucket"
    ELSE "describe_vector_index"

\* a create call is issued only right after the existence check of the same
\* bucket or index did not succeed
CreateOnlyAfterFailedCheck ==
    \A n \in 1..Len(provLog) :
        provLog[n].api \in {"create_vector_bucket", "create_vector_index"} =>
            /\ n > 1
            /\ provLog[n - 1].api = CheckOf(provLog[n].api)
            /\ provLog[n - 1].resource = provLog[n].resource
            /\ ~provLog[n - 1].ok

\* every bucket and index existed before the constructor ran
AllExisted ==
    /\ existed.buckets = {BucketList[k] : k \in 1..Len(BucketList)}
    /\ existed.indexes = Targets

StoreUnchanged == buckets = existed.buckets /\ indexes = existed.indexes

C19_EpisodicNeverWritten ==
    /\ \A n \in 1..Len(puts) :
          /\ puts[n].bucket # EPISODIC_BUCKET
          /\ puts[n].index_name # "episodic_index"
          /\ <<puts[n].bucket, puts[n].index_name>> \in {SemanticTarget, ProceduralTarget}
    /\ store[EpisodicTarget] = EmptyIndex
    /\ pc \notin ProvisionPcs =>
          /\ \E n \in 1..Len(Describes) : Describes[n].resource = <<EPISODIC_BUCKET>>
          /\ \E n \in 1..Len(Describes) : Describes[n].resource = EpisodicTarget
          /\ (EPISODIC_BUCKET \in buckets
                 \/ \E n \in 1..Len(FailedCreates) :
                        FailedCreates[n].resource = <<EPISODIC_BUCKET>>)
          /\ (EpisodicTarget \in indexes
                 \/ \E n \in 1..Len(FailedCreates) :
                        FailedCreates[n].resource = EpisodicTarget)

C19_Witness ==
    /\ pc = "done"
    /\ existed.buckets = {}
    /\ EpisodicTarget \in indexes
    /\ Len(puts) = 2
    /\ puts[1].ok
    /\ puts[2].ok
    /\ store[SemanticTarget] # EmptyIndex
    /\ store[ProceduralTarget] # EmptyIndex
    /\ store[EpisodicTarget] = EmptyIndex

\* the texts of the chunks of the corpus, file after file
ChunkTexts ==
    LET F == FlatChunks(corpus) IN [n \in 1..Len(F) |-> Get(F[n].chunk, "text", "")]

\* C20: in a run embed_query is called exactly once per chunk, for every
\* chunk of every document and in their order, and the vector record of a
\* chunk, keyed by its chunk_id, is appended to the list of the partition
\* the chunk is classified into and to no other.
C20_OneEmbeddingPerChunk ==
    /\ Len(embedded) = embedCalls
    /\ Len(embedded) <= Len(FlatChunks(corpus))
    /\ pc \in {"upload", "uploaded", "done"} =>
          /\ embedded = ChunkTexts
          /\ all_semantic_vectors = ExpectedSemantic
          /\ all_procedural_vectors = ExpectedProcedural
          /\ \A n \in 1..Len(all_semantic_vectors) :
                all_semantic_vectors[n].metadata.entity_type # "query_example"
          /\ \A n \in 1..Len(all_procedural_vectors) :
                all_procedural_vectors[n].metadata.entity_type = "query_example"

C20_Witness ==
    /\ pc = "done"
    /\ Len(corpus) = 2
    /\ embedded = <<"find customers in CA", "customer id">>
    /\ Len(all_semantic_vectors) = 1
    /\ all_semantic_vectors[1].key = "c1"
    /\ all_semantic_vectors[1].data = [float32 |-> Embed("customer id")]
    /\ Len(all_procedural_vectors) = 1
    /\ all_procedural_vectors[1].key = "q1"
    /\ all_procedural_vectors[1].data = [float32 |-> Embed("find customers in CA")]

(***************************************************************************)
(* The PostgresConnector and its users.  A cursor or a connection counts   *)
(* as closed when its close() has been called.                             *)
(***************************************************************************)
Held == {[kind |-> "connection", id |-> pg_conn], [kind |-> "cursor", id |-> pg_cur]}

ConnectorClosed == pg_conn = None /\ pg_cur = None

Called(api, ok) == \E n \in 1..Len(clog) : clog[n].api = api /\ clog[n].ok = ok

\* C21: when a with-block on connect() has been left, normally or through
\* an exception raised in the block or in open(), close() has been called on
\* every cursor and connection there was, conn and cur are None, and the
\* exception, if any, has reached the caller.
C21_ConnectEnsuresClose ==
    (pc = "c_idle" /\ op.name = "connect") =>
        /\ ConnectorClosed
        /\ created \subseteq close_calls
        /\ outcome = (IF exc = "" THEN "returned" ELSE "raised")

C21_Witness ==
    /\ pc = "c_idle"
    /\ op.name = "connect"
    /\ outcome = "raised"
    /\ Len(clog) = 5
    /\ clog[3] = DriverCall("execute", "cursor of conn1", FALSE)
    /\ clog[4].api = "cur.close"
    /\ clog[5].api = "conn.close"
    /\ ConnectorClosed

\* C22: close() never raises, also when closing the cursor or the connection
\* fails, it leaves conn and cur None, and on a connector that is closed or
\* was never opened it calls nothing.
C22_CloseIsSafe ==
    op.name = "close" =>
        /\ pc # "c_raise"
        /\ pc = "c_idle" =>
              /\ outcome = "returned"
              /\ ConnectorClosed
              /\ (entry.conn = None /\ entry.cur = None) => clog = <<>>

C22_Witness ==
    /\ pc = "c_idle"
    /\ op.name = "close"
    /\ outcome = "returned"
    /\ clog = <<DriverCall("cur.close", "cursor of conn1", FALSE),
                DriverCall("conn.close", "conn1", FALSE)>>
    /\ ConnectorClosed

\* C28: between the calls on a connector conn is None exactly when cur is
\* None.
C28_ConnIffCur ==
    pc = "c_idle" => (pg_conn = None <=> pg_cur = None)

\* C29: every DataManager, SchemaManager and CSVLoader operation leaves the
\* connector closed when it returns or raises.
C29_OperationsLeaveClosed ==
    (pc = "c_idle" /\ op.name \in ManagerOps \cup {"CSVLoader.load_csv_copy"}) =>
        ConnectorClosed

(***************************************************************************)
(* The reward-model API.                                                   *)
(***************************************************************************)
Occurrences(l, x) == Cardinality({n \in 1..Len(l) : l[n] = x})

\* a handler has its answer ready
Answered(endpoint) == pc = "r_respond" /\ request.endpoint = endpoint

PostEndpoints == {"/score", "/rank", "/batch/score"}

\* C23: the ranked_responses of a /rank answer are a permutation of the
\* responses of the request, their scores do not increase along the list
\* and their ranks are 1..n in the order of the list.
C23_RankSortedBestFirst ==
    (Answered("/rank") /\ http[1].status = 200) =>
        LET ranked == http[1].body.ranked_responses IN
            /\ Len(ranked) = Len(request.items)
            /\ \A r \in ResponsePool :
                  Occurrences([n \in 1..Len(ranked) |-> ranked[n].response], r)
                      = Occurrences(request.items, r)
            /\ \A n \in 1..(Len(ranked) - 1) : ranked[n].score >= ranked[n + 1].score
            /\ \A n \in 1..Len(ranked) : ranked[n].rank = n

C23_Witness ==
    /\ Answered("/rank")
    /\ http[1].status = 200
    /\ Len(request.items) = 3
    /\ scoreOf[request.items[1]] < scoreOf[request.items[2]]
    /\ scoreOf[request.items[2]] < scoreOf[request.items[3]]
    /\ http[1].body.ranked_responses[1].response = request.items[3]
    /\ http[1].body.ranked_responses[3].response = request.items[1]
    /\ http[1].body.ranked_responses[1].score > http[1].body.ranked_responses[3].score

\* C30: while the model is None every endpoint answers 503 and neither the
\* model nor the tokenizer has been invoked; with the model loaded a scoring
\* handler answers 500 when scoring an item failed and 200 otherwise.
C30_NotLoadedIs503 ==
    /\ model = None => invocations = 0
    /\ pc = "r_respond" =>
          /\ model = None => http[1].status = 503
          /\ (model # None /\ request.endpoint \in PostEndpoints) =>
                http[1].status =
                    (IF Len(scored_responses) < Len(request.items) THEN 500 ELSE 200)
          /\ (model # None /\ request.endpoint \notin PostEndpoints) =>
                http[1].status = 200

C30_Witness ==
    /\ Answered("/batch/score")
    /\ model = None
    /\ Len(request.items) = 2
    /\ http = <<[status |-> 503, detail |-> "Model not loaded"]>>
    /\ invocations = 0

(***************************************************************************)
(* The single-partition searches.                                          *)
(***************************************************************************)
SinglePartition == [search_semantic |-> SemanticTarget, search_procedural |-> ProceduralTarget]

\* C24: search_semantic and search_procedural call embed_query once and
\* then, if it returned, query_vectors once, on the index of the partition
\* searched and asking for distance and metadata; a search that returns has
\* made both calls, and when query_vectors returned it hands back the records
\* of the response in the order of the response.
C24_OneEmbedOneQuery ==
    call.op \in DOMAIN SinglePartition =>
        /\ Len(q_log) <= 2
        /\ Len(q_log) >= 1 => q_log[1].api = "embed_query"
        /\ Len(q_log) = 2 =>
              /\ q_log[1].ok
              /\ q_log[2].api = "query_vectors"
              /\ q_log[2].target = SinglePartition[call.op]
              /\ q_log[2].returnDistance /\ q_log[2].returnMetadata
        /\ pc = "q_raised" => (Len(q_log) = 1 /\ ~q_log[1].ok)
        /\ pc = "returned" =>
              /\ Len(q_log) = 2
              /\ q_log[2].ok => q_result = <<q_log[2].response.vectors>>

C24_Witness ==
    /\ pc = "returned"
    /\ call.op = "search_procedural"
    /\ Len(q_log) = 2
    /\ q_log[2].ok
    /\ q_log[2].target = ProceduralTarget
    /\ Len(q_log[2].response.vectors) = 2
    /\ q_log[2].response.vectors[1].distance < q_log[2].response.vectors[2].distance
    /\ q_result = <<q_log[2].response.vectors>>

(***************************************************************************)
(* The order of the remote calls of an ingestion run.                      *)
(***************************************************************************)
\* C25: put_vectors is not called before every chunk of every document has
\* been embedded, embed_query is not called before the existence of every
\* bucket and index has been checked, and a run in which an embedding failed
\* has called put_vectors never and written nothing.
C25_EmbedAllBeforeAnyPut ==
    /\ puts # <<>> => (embedded = ChunkTexts /\ ~embedFailed)
    /\ embedCalls > 0 =>
          [n \in 1..Len(Describes) |-> Describes[n].resource] = Resources
    /\ embedFailed => (puts = <<>> /\ store = EmptyStore)

C25_Witness ==
    /\ pc = "raised"
    /\ embedFailed
    /\ Len(corpus) = 2
    /\ embedded = <<"customer id", "find customers in CA", "orphan">>
    /\ Len(Describes) = Len(Resources)
    /\ puts = <<>>
    /\ store = EmptyStore

\* a list cut into batches of batch_size, in list order
BatchesOf(l) ==
    [n \in 1..((Len(l) + batch_size - 1) \div batch_size) |->
        Slice(l, (n - 1) * batch_size, n * batch_size)]

InListOrder(calls, batches) ==
    /\ Len(calls) <= Len(batches)
    /\ \A n \in 1..Len(calls) : calls[n].vectors = batches[n]

\* C26: the batches of a partition are written in list order, every semantic
\* batch is attempted before any procedural batch, and when the run is over
\* every batch of both partitions has been attempted, whatever failed.
C26_FixedCallOrder ==
    puts # <<>> =>
        LET S == PutsTo("semantic_index")
            P == PutsTo("procedural_index")
            SB == BatchesOf(all_semantic_vectors)
            PB == BatchesOf(all_procedural_vectors)
        IN  /\ puts = S \o P
            /\ InListOrder(S, SB)
            /\ InListOrder(P, PB)
            /\ P # <<>> => Len(S) = Len(SB)
            /\ pc = "done" => (Len(S) = Len(SB) /\ Len(P) = Len(PB))

C26_Witness ==
    /\ pc = "done"
    /\ corpus = BigCorpus
    /\ Len(puts) = 3
    /\ ~puts[1].ok /\ ~puts[2].ok /\ puts[3].ok
    /\ Len(puts[1].vectors) = batch_size
    /\ puts[2].vectors = SubSeq(all_semantic_vectors, batch_size + 1,
                                Len(all_semantic_vectors))
    /\ puts[3].index_name = "procedural_index"

\* C27: the counts that ingest_all returns are the numbers of vector records
\* built from the documents, whatever the put_vectors calls did, so they are
\* never below and can be above the number of records in the indexes.
C27_CountsIgnoreWrites ==
    pc = "done" =>
        /\ result[1].semantic_count = Len(ExpectedSemantic)
        /\ result[1].procedural_count = Len(ExpectedProcedural)
        /\ Cardinality(DOMAIN store[SemanticTarget]) <= result[1].semantic_count
        /\ Cardinality(DOMAIN store[ProceduralTarget]) <= result[1].procedural_count

C27_Witness ==
    /\ pc = "done"
    /\ Len(corpus) = 2
    /\ puts # <<>>
    /\ \A n \in 1..Len(puts) : ~puts[n].ok
    /\ result[1].semantic_count = 2
    /\ result[1].procedural_count = 1
    /\ store = EmptyStore

====
